---- MODULE Spec2Model ----
(***************************************************************************)
(* Fuelio: the refuel-now decision rules (backend/app/domain/decision.py), *)
(* the trend classifier (backend/app/domain/forecast.py) and the fuel-stop *)
(* optimizer pipeline (backend/app/services/fuel_strategy_optimizer.py).   *)
(*                                                                         *)
(* Numbers.  Python floats are modelled by exact rationals [n, d] (d > 0). *)
(* Liters, km and percent inputs are integers; prices are integers in      *)
(* mills (1/1000 of a currency unit), so the 0.02 threshold is 20 mills.   *)
(* Confidence is kept in percent (0.95 is 95).  An Optional value is a     *)
(* sequence: <<>> is None and <<v>> is the value v.                        *)
(***************************************************************************)
EXTENDS Integers, Sequences, FiniteSets, TLC

VARIABLES
    din,        \* DecisionInput handed to make_decision
    dres,       \* Optional DecisionResult returned by make_decision
    tin,        \* (today_price, predicted_price) handed to calculate_trend
    tres,       \* Optional trend label returned by calculate_trend
    oin,        \* arguments of optimize_fuel_strategy
    pc,         \* position of optimize_fuel_strategy
    opt_stations,   \* its local list of GasStationData (stations)
    opt_model,  \* Optional model returned by build_optimization_model
    opt_status, \* Optional status returned by solve_model
    opt_sol,    \* variable values the solver left in the model
    ores,       \* Optional outcome of optimize_fuel_strategy
    called,     \* the functions optimize_fuel_strategy has called so far
    gin,        \* arguments from which the greedy planner's metadata is built
    gres,       \* Optional OptimizationResult of solve_greedy_heuristic
    ptres,      \* Optional label calculate_price_trend returns for the prices tin
    lin,        \* arguments of calculate_liters_remaining
    lres,       \* Optional liters returned by calculate_liters_remaining
    rin,        \* arguments of two calls of calculate_range_km for one vehicle
    rres,       \* Optional pair of the ranges the two calls return
    fin,        \* arguments of generate_forecast
    fres,       \* Optional list returned by generate_forecast
    pin,        \* arguments of build_fuel_projection
    pres,       \* Optional projection returned by build_fuel_projection
    sin,        \* arguments of find_stations_along_route
    sres,       \* Optional list returned by find_stations_along_route
    cin,        \* arguments of apply_card_benefits
    cres,       \* Optional list of stations after apply_card_benefits
    PROVIDERS_CACHE,\* the module global _PROVIDERS_CACHE: None or a list
    has_client, \* whether get_genai_client() returns a client in this process
    calls,      \* position and return value of each get_supported_providers call
    running     \* the call the event loop is executing, 0 when none is

litersVars == <<lin, lres>>
rangeVars == <<rin, rres>>
forecastVars == <<fin, fres>>
projectionVars == <<pin, pres>>
stationsVars == <<sin, sres>>
providerVars == <<PROVIDERS_CACHE, has_client, calls, running>>
cardVars == <<cin, cres>>
decVars == <<din, dres, litersVars, rangeVars>>
trendVars == <<tin, tres, ptres, forecastVars>>
optVars == <<oin, pc, opt_stations, opt_model, opt_status, opt_sol, ores, called>>
greedyVars == <<gin, gres, projectionVars, stationsVars, cardVars, providerVars>>
vars == <<decVars, trendVars, optVars, greedyVars>>

----------------------------------------------------------------------------
(* Optional values and exact rationals                                     *)

None == <<>>
Some(v) == <<v>>
IsNone(o) == o = <<>>
Val(o) == o[1]

Abs(x) == IF x < 0 THEN -x ELSE x

RECURSIVE Gcd(_, _)
Gcd(a, b) == IF b = 0 THEN a ELSE Gcd(b, a % b)

\* the rational n/d in lowest terms, d > 0
R(n, d) ==
    LET s == IF d < 0 THEN -1 ELSE 1
        g == Gcd(Abs(n), Abs(d))
    IN  [n |-> (s * n) \div g, d |-> (s * d) \div g]

RInt(k) == [n |-> k, d |-> 1]
RAdd(a, b) == R(a.n * b.d + b.n * a.d, a.d * b.d)
RSub(a, b) == R(a.n * b.d - b.n * a.d, a.d * b.d)
RMul(a, b) == R(a.n * b.n, a.d * b.d)
RDiv(a, b) == R(a.n * b.d, a.d * b.n)
RLe(a, b) == a.n * b.d <= b.n * a.d
RLt(a, b) == a.n * b.d < b.n * a.d
RGe(a, b) == RLe(b, a)
RGt(a, b) == RLt(b, a)
RMax(a, b) == IF RGe(a, b) THEN a ELSE b
RMin(a, b) == IF RLe(a, b) THEN a ELSE b

RFloor(a) == a.n \div a.d

\* Python round(): to the nearest integer, a tie to the even one
RoundHalfEven(a) ==
    LET f == RFloor(a)
        twice == RSub(RMul(RInt(2), a), RInt(2 * f))     \* 2 * (a - f)
    IN  IF RLt(twice, RInt(1)) THEN f
        ELSE IF RGt(twice, RInt(1)) THEN f + 1
        ELSE IF f % 2 = 0 THEN f ELSE f + 1

\* round(x, 1) of a rational
Round1(a) == R(RoundHalfEven(RMul(a, RInt(10))), 10)

----------------------------------------------------------------------------
(* backend/app/domain/decision.py                                          *)

CriticalRangeKm == 30          \* rule 1: range_km <= 30
TripRangeTenths == 7           \* rule 3: planned_trip_km > 0.7 * range_km
LowRangeKm == 120              \* rule 4: range_km < 120
TrendThresholdMills == 20      \* calculate_price_trend: delta >= 0.02, delta <= -0.02
DefaultFuelPercent == 50       \* no valid anchor: tank * 0.5

\* VehicleConfig.reserve_fraction, given in percent
ReserveFraction(vehicle) == R(vehicle.reserve_pct, 100)

\* reserve_liters = vehicle.tank_size_liters * vehicle.reserve_fraction
ReserveLiters(vehicle) == RMul(RInt(vehicle.tank), ReserveFraction(vehicle))

\* without max(0, ...)
calculate_liters_remaining_unclamped(vehicle, anchor, fuel_percent, distance) ==
    IF anchor = "percent" /\ ~IsNone(fuel_percent)
    THEN RMul(RInt(vehicle.tank), R(Val(fuel_percent), 100))
    ELSE IF anchor = "last_full_fillup_date" /\ ~IsNone(distance)
    THEN LET liters_used == RMul(RInt(Val(distance)), R(vehicle.eff, 100))
         IN  RSub(RInt(vehicle.tank), liters_used)
    ELSE RMul(RInt(vehicle.tank), R(DefaultFuelPercent, 100))

calculate_liters_remaining(vehicle, anchor, fuel_percent, distance) ==
    IF anchor = "percent" /\ ~IsNone(fuel_percent)
    THEN RMul(RInt(vehicle.tank), R(Val(fuel_percent), 100))
    ELSE IF anchor = "last_full_fillup_date" /\ ~IsNone(distance)
    THEN LET liters_used == RMul(RInt(Val(distance)), R(vehicle.eff, 100))
         IN  RMax(RInt(0), RSub(RInt(vehicle.tank), liters_used))
    ELSE RMul(RInt(vehicle.tank), R(DefaultFuelPercent, 100))

\* without max(0, ...)
calculate_range_km_unclamped(liters_remaining, reserve_liters, efficiency) ==
    LET usable_liters == RSub(liters_remaining, reserve_liters)
    IN  RDiv(usable_liters, R(efficiency, 100))

calculate_range_km(liters_remaining, reserve_liters, efficiency) ==
    LET usable_liters == RMax(RInt(0), RSub(liters_remaining, reserve_liters))
    IN  RDiv(usable_liters, R(efficiency, 100))

\* (price_delta, price_trend); prices and the delta are rationals, in mills
calculate_price_trend_strict(today_price, predicted_tomorrow) ==
    IF IsNone(today_price) \/ IsNone(predicted_tomorrow)
    THEN [delta |-> None, trend |-> None]
    ELSE LET delta == RSub(Val(predicted_tomorrow), Val(today_price))
         IN  [delta |-> Some(delta),
              trend |-> Some(IF RGt(delta, RInt(TrendThresholdMills)) THEN "rising"
                             ELSE IF RLt(delta, RInt(-TrendThresholdMills)) THEN "falling"
                             ELSE "flat")]

calculate_price_trend(today_price, predicted_tomorrow) ==
    IF IsNone(today_price) \/ IsNone(predicted_tomorrow)
    THEN [delta |-> None, trend |-> None]
    ELSE LET delta == RSub(Val(predicted_tomorrow), Val(today_price))
         IN  [delta |-> Some(delta),
              trend |-> Some(IF RGe(delta, RInt(TrendThresholdMills)) THEN "rising"
                             ELSE IF RLe(delta, RInt(-TrendThresholdMills)) THEN "falling"
                             ELSE "flat")]

\* Python truthiness of an Optional number: None and 0 are false
Truthy(o) == ~IsNone(o) /\ Val(o) # 0

\* the same for an Optional float kept as a rational
TruthyFloat(o) == ~IsNone(o) /\ Val(o).n # 0

\* the if/elif chain of make_decision: the number of the branch that runs
DecisionBranchRule3First(range_km, liters_remaining, reserve_liters, trip, trend) ==
    IF Truthy(trip) /\ RGt(RInt(Val(trip)), RMul(R(TripRangeTenths, 10), range_km))
    THEN 3
    ELSE IF RLe(range_km, RInt(CriticalRangeKm)) \/ RLe(liters_remaining, reserve_liters)
    THEN 1
    ELSE IF Truthy(trip) /\ RGt(RInt(Val(trip)), range_km)
    THEN 2
    ELSE IF trend = Some("rising") /\ RLt(range_km, RInt(LowRangeKm))
    THEN 4
    ELSE 5

DecisionBranchNoRule2(range_km, liters_remaining, reserve_liters, trip, trend) ==
    IF RLe(range_km, RInt(CriticalRangeKm)) \/ RLe(liters_remaining, reserve_liters)
    THEN 1
    ELSE IF Truthy(trip) /\ RGt(RInt(Val(trip)), RMul(R(TripRangeTenths, 10), range_km))
    THEN 3
    ELSE IF trend = Some("rising") /\ RLt(range_km, RInt(LowRangeKm))
    THEN 4
    ELSE 5

DecisionBranchRule3Inclusive(range_km, liters_remaining, reserve_liters, trip, trend) ==
    IF RLe(range_km, RInt(CriticalRangeKm)) \/ RLe(liters_remaining, reserve_liters)
    THEN 1
    ELSE IF Truthy(trip) /\ RGt(RInt(Val(trip)), range_km)
    THEN 2
    ELSE IF Truthy(trip) /\ RGe(RInt(Val(trip)), RMul(R(TripRangeTenths, 10), range_km))
    THEN 3
    ELSE IF trend = Some("rising") /\ RLt(range_km, RInt(LowRangeKm))
    THEN 4
    ELSE 5

DecisionBranchRule4Inclusive(range_km, liters_remaining, reserve_liters, trip, trend) ==
    IF RLe(range_km, RInt(CriticalRangeKm)) \/ RLe(liters_remaining, reserve_liters)
    THEN 1
    ELSE IF Truthy(trip) /\ RGt(RInt(Val(trip)), range_km)
    THEN 2
    ELSE IF Truthy(trip) /\ RGt(RInt(Val(trip)), RMul(R(TripRangeTenths, 10), range_km))
    THEN 3
    ELSE IF trend = Some("rising") /\ RLe(range_km, RInt(LowRangeKm))
    THEN 4
    ELSE 5

\* rule 4 for every trend but falling
DecisionBranchRule4NotFalling(range_km, liters_remaining, reserve_liters, trip, trend) ==
    IF RLe(range_km, RInt(CriticalRangeKm)) \/ RLe(liters_remaining, reserve_liters)
    THEN 1
    ELSE IF Truthy(trip) /\ RGt(RInt(Val(trip)), range_km)
    THEN 2
    ELSE IF Truthy(trip) /\ RGt(RInt(Val(trip)), RMul(R(TripRangeTenths, 10), range_km))
    THEN 3
    ELSE IF trend # Some("falling") /\ RLt(range_km, RInt(LowRangeKm))
    THEN 4
    ELSE 5

\* the rules on the rounded liters and range
DecisionBranchRounded(range_km, liters_remaining, reserve_liters, trip, trend) ==
    IF RLe(RInt(RoundHalfEven(range_km)), RInt(CriticalRangeKm)) \/ RLe(Round1(liters_remaining), reserve_liters)
    THEN 1
    ELSE IF Truthy(trip) /\ RGt(RInt(Val(trip)), RInt(RoundHalfEven(range_km)))
    THEN 2
    ELSE IF Truthy(trip) /\ RGt(RInt(Val(trip)), RMul(R(TripRangeTenths, 10), RInt(RoundHalfEven(range_km))))
    THEN 3
    ELSE IF trend = Some("rising") /\ RLt(RInt(RoundHalfEven(range_km)), RInt(LowRangeKm))
    THEN 4
    ELSE 5

DecisionBranch(range_km, liters_remaining, reserve_liters, trip, trend) ==
    IF RLe(range_km, RInt(CriticalRangeKm)) \/ RLe(liters_remaining, reserve_liters)
    THEN 1
    ELSE IF Truthy(trip) /\ RGt(RInt(Val(trip)), range_km)
    THEN 2
    ELSE IF Truthy(trip) /\ RGt(RInt(Val(trip)), RMul(R(TripRangeTenths, 10), range_km))
    THEN 3
    ELSE IF trend = Some("rising") /\ RLt(range_km, RInt(LowRangeKm))
    THEN 4
    ELSE 5

\* the assignments made in each branch (decision, severity, confidence)
BranchVerdict(branch) ==
    CASE branch = 1 -> [decision |-> "FILL", severity |-> "high", confidence |-> 95]
      [] branch = 2 -> [decision |-> "FILL", severity |-> "high", confidence |-> 95]
      [] branch = 3 -> [decision |-> "FILL", severity |-> "medium", confidence |-> 80]
      [] branch = 4 -> [decision |-> "FILL", severity |-> "medium", confidence |-> 75]
      [] OTHER      -> [decision |-> "NO_ACTION", severity |-> "low", confidence |-> 70]

make_decision(input) ==
    LET vehicle == input.vehicle
        reserve_liters == ReserveLiters(vehicle)
        liters_remaining == calculate_liters_remaining(
            vehicle, input.fuel_anchor_type, input.fuel_percent,
            input.distance_since_fillup_km)
        range_km == calculate_range_km(liters_remaining, reserve_liters, vehicle.eff)
        pt == calculate_price_trend(input.today_price, input.predicted_tomorrow)
        branch == DecisionBranch(range_km, liters_remaining, reserve_liters,
                                 input.planned_trip_km, pt.trend)
        verdict == BranchVerdict(branch)
    IN  [branch |-> branch,
         decision |-> verdict.decision,
         severity |-> verdict.severity,
         confidence |-> verdict.confidence,
         liters_remaining |-> Round1(liters_remaining),
         range_km |-> RoundHalfEven(range_km),
         reserve_fraction |-> ReserveFraction(vehicle),
         planned_trip_km |-> input.planned_trip_km,
         today_price |-> input.today_price,
         predicted_tomorrow |-> input.predicted_tomorrow,
         \* round(price_delta, 3) if price_delta else None
         price_delta |-> IF TruthyFloat(pt.delta) THEN Some(RoundHalfEven(Val(pt.delta))) ELSE None,
         price_trend |-> pt.trend]

----------------------------------------------------------------------------
(* backend/app/domain/forecast.py                                          *)

ForecastThresholdMills == 20   \* calculate_trend: delta >= 0.02, delta <= -0.02

\* prices are rationals, in mills
calculate_trend_strict(today_price, predicted_price) ==
    LET delta == RSub(predicted_price, today_price)
    IN  IF RGt(delta, RInt(ForecastThresholdMills)) THEN "rising"
        ELSE IF RLt(delta, RInt(-ForecastThresholdMills)) THEN "falling"
        ELSE "flat"

calculate_trend(today_price, predicted_price) ==
    LET delta == RSub(predicted_price, today_price)
    IN  IF RGe(delta, RInt(ForecastThresholdMills)) THEN "rising"
        ELSE IF RLe(delta, RInt(-ForecastThresholdMills)) THEN "falling"
        ELSE "flat"

----------------------------------------------------------------------------
(* backend/app/domain/forecast.py: generate_forecast                       *)

FloorPriceMills == 10          \* max(0.01, predicted_price)

\* the sum of the first k elements of a sequence of integers
RECURSIVE SumTo(_, _)
SumTo(seq, k) == IF k = 0 THEN 0 ELSE seq[k] + SumTo(seq, k - 1)

\* historical_prices[::-1]
ReverseIdentity(seq) == seq

Reverse(seq) == [i \in 1..Len(seq) |-> seq[Len(seq) + 1 - i]]

\* LinearRegression().fit(X, y) with X = 0..n-1: (slope, intercept) of the
\* least-squares line; one sample gives the horizontal line through it
FitLine(y) ==
    LET n == Len(y)
        X == [i \in 1..n |-> i - 1]
        XY == [i \in 1..n |-> (i - 1) * y[i]]
        XX == [i \in 1..n |-> (i - 1) * (i - 1)]
        sx == SumTo(X, n)
        sy == SumTo(y, n)
        den == n * SumTo(XX, n) - sx * sx
        slope == IF den = 0 THEN RInt(0) ELSE R(n * SumTo(XY, n) - sx * sy, den)
    IN  [slope |-> slope,
         intercept |-> RSub(R(sy, n), RMul(slope, R(sx, n)))]

\* max(0.01, predicted_price)
FloorPriceOff(predicted_price) == predicted_price

FloorPrice(predicted_price) == RMax(RInt(FloorPriceMills), predicted_price)

\* enumerate(predictions, 1) over the predictions for days n .. n + days - 1
ForecastDaysShort(days) == 1..(days - 1)

ForecastDays(days) == 1..days

\* historical_prices is most recent first; prices in mills
generate_forecast(today_price, historical_prices, days) ==
    IF Len(historical_prices) = 0 THEN <<>>
    ELSE LET y == Reverse(historical_prices)
             n_samples == Len(y)
             line == FitLine(y)
             Predict(x) == RAdd(line.intercept, RMul(line.slope, RInt(x)))
         IN  [i \in ForecastDays(days) |->
                 LET predicted_price == FloorPrice(Predict(n_samples + i - 1))
                     delta == RSub(predicted_price, RInt(today_price))
                 IN  [day |-> i,
                      predicted_price |-> RoundHalfEven(predicted_price),
                      delta_from_today |-> RoundHalfEven(delta),
                      trend |-> calculate_trend(RInt(today_price), predicted_price)]]

----------------------------------------------------------------------------
(* backend/app/services/fuel_strategy_optimizer.py: route matching         *)
(* Points lie on one meridian and a latitude is given as the kilometres    *)
(* from the equator along it, so the great-circle distance of two points   *)
(* is the difference of their latitudes.                                   *)

DefaultPriceMills == 1500      \* station.get('regular', 1.50)
HistoryDays == 7               \* [today_price] * 7

RAbs(a) == IF a.n < 0 THEN [n |-> -a.n, d |-> a.d] ELSE a

haversine_km(lat1, lng1, lat2, lng2) == RAbs(RSub(lat2, lat1))

\* the distance to the line through the segment: t is not clamped to [0, 1]
point_to_segment_distance_line(point, seg_start, seg_end) ==
    LET px == point[1]      py == point[2]
        ax == seg_start[1]  ay == seg_start[2]
        bx == seg_end[1]    by == seg_end[2]
        abx == RSub(bx, ax) aby == RSub(by, ay)
        apx == RSub(px, ax) apy == RSub(py, ay)
        ab_sq == RAdd(RMul(abx, abx), RMul(aby, aby))
    IN  IF ab_sq = RInt(0) THEN haversine_km(px, py, ax, ay)
        ELSE LET t == RDiv(RAdd(RMul(apx, abx), RMul(apy, aby)), ab_sq)
                 closest_x == RAdd(ax, RMul(t, abx))
                 closest_y == RAdd(ay, RMul(t, aby))
             IN  haversine_km(px, py, closest_x, closest_y)

point_to_segment_distance(point, seg_start, seg_end) ==
    LET px == point[1]      py == point[2]
        ax == seg_start[1]  ay == seg_start[2]
        bx == seg_end[1]    by == seg_end[2]
        abx == RSub(bx, ax) aby == RSub(by, ay)
        apx == RSub(px, ax) apy == RSub(py, ay)
        ab_sq == RAdd(RMul(abx, abx), RMul(aby, aby))
    IN  IF ab_sq = RInt(0) THEN haversine_km(px, py, ax, ay)
        ELSE LET t == RMax(RInt(0), RMin(RInt(1),
                          RDiv(RAdd(RMul(apx, abx), RMul(apy, aby)), ab_sq)))
                 closest_x == RAdd(ax, RMul(t, abx))
                 closest_y == RAdd(ay, RMul(t, aby))
             IN  haversine_km(px, py, closest_x, closest_y)

\* (slat, slng) of a station dict, whose coordinates are whole km
StationPoint(station) == <<RInt(station.lat), RInt(station.lng)>>

\* (p.lat, p.lng) of a TripPoint, whose coordinates are exact fractions
PointOf(p) == <<p.lat, p.lng>>
SegmentLen(route_points, i) ==
    haversine_km(route_points[i].lat, route_points[i].lng,
                 route_points[i + 1].lat, route_points[i + 1].lng)

\* the loop over the segments for one station: min_dist (None is inf),
\* closest_km and cumulative_km after segments 1..i
RECURSIVE ClosestSegment(_, _, _)
ClosestSegment(route_points, station, i) ==
    IF i = 0 THEN [min_dist |-> None, closest_km |-> RInt(0), cumulative_km |-> RInt(0)]
    ELSE LET prev == ClosestSegment(route_points, station, i - 1)
             seg_dist == point_to_segment_distance(
                 StationPoint(station), PointOf(route_points[i]), PointOf(route_points[i + 1]))
             segment_len == SegmentLen(route_points, i)
             closer == IsNone(prev.min_dist) \/ RLt(seg_dist, Val(prev.min_dist))
         IN  [min_dist |-> IF closer THEN Some(seg_dist) ELSE prev.min_dist,
              closest_km |-> IF closer
                             THEN RAdd(prev.cumulative_km, RDiv(segment_len, RInt(2)))
                             ELSE prev.closest_km,
              cumulative_km |-> RAdd(prev.cumulative_km, segment_len)]

\* list.sort(key = km_along_route): stable insertion into a sorted list
RECURSIVE InsertByKm(_, _)
InsertByKm(sorted, s) ==
    IF sorted = <<>> THEN <<s>>
    ELSE LET last == sorted[Len(sorted)]
         IN  IF RLe(last.km_along_route, s.km_along_route) THEN Append(sorted, s)
             ELSE Append(InsertByKm(SubSeq(sorted, 1, Len(sorted) - 1), s), last)

RECURSIVE SortByKm(_)
SortByKm(seq) ==
    IF seq = <<>> THEN <<>>
    ELSE InsertByKm(SortByKm(SubSeq(seq, 1, Len(seq) - 1)), seq[Len(seq)])

\* the stations appended to found_stations, in the order of all_stations
RECURSIVE FoundStations(_, _, _, _)
FoundStations(route_points, all_stations, radius_km, k) ==
    IF k = 0 THEN <<>>
    ELSE LET station == all_stations[k]
             c == ClosestSegment(route_points, station, Len(route_points) - 1)
             rest == FoundStations(route_points, all_stations, radius_km, k - 1)
         IN  IF ~IsNone(c.min_dist) /\ RLe(Val(c.min_dist), RInt(radius_km))
             THEN Append(rest,
                         [id |-> station.id,
                          lat |-> station.lat,
                          lng |-> station.lng,
                          km_along_route |-> c.closest_km,
                          base_prices |-> <<station.regular>>,
                          best_card |-> None,
                          cashback_percent |-> 0])
             ELSE rest

find_stations_along_route(route_points, all_stations, radius_km) ==
    SortByKm(FoundStations(route_points, all_stations, radius_km, Len(all_stations)))

----------------------------------------------------------------------------
(* fuel_strategy_optimizer.py: card benefits, forecasts, the model         *)

ReserveLitersDefault == 5      \* build_optimization_model: reserve_liters = 5.0
GreedyBufferLiters == 5        \* solve_greedy_heuristic: fuel_for_remainder + 5.0
MaxFills == 2                  \* max_fills_rule
MinStopDeciliters == 1         \* extract_solution keeps liters > 0.1

\* the loop over user_cards with 'cashback >= best_cashback': a later card of
\* the same cashback replaces the earlier one
RECURSIVE BestCardLastWins(_, _)
BestCardLastWins(user_cards, k) ==
    IF k = 0 THEN [best_cashback |-> 0, best_card |-> None]
    ELSE LET prev == BestCardLastWins(user_cards, k - 1)
             card == user_cards[k]
             cashback == IF Truthy(card.cashback) THEN Val(card.cashback) ELSE 0
         IN  IF cashback >= prev.best_cashback
             THEN [best_cashback |-> cashback, best_card |-> Some(card.provider)]
             ELSE prev

\* the loop over user_cards: (best_cashback, best_card) after cards 1..k
RECURSIVE BestCard(_, _)
BestCard(user_cards, k) ==
    IF k = 0 THEN [best_cashback |-> 0, best_card |-> None]
    ELSE LET prev == BestCard(user_cards, k - 1)
             card == user_cards[k]
             cashback == IF Truthy(card.cashback) THEN Val(card.cashback) ELSE 0
         IN  IF cashback > prev.best_cashback
             THEN [best_cashback |-> cashback, best_card |-> Some(card.provider)]
             ELSE prev

apply_card_benefits(stations, user_cards) ==
    LET best == BestCard(user_cards, Len(user_cards))
    IN  [i \in 1..Len(stations) |->
            [stations[i] EXCEPT !.cashback_percent = best.best_cashback,
                                !.best_card = best.best_card]]

\* base_prices is a dict day_offset -> price, kept as a sequence whose
\* element d + 1 is the price of day d; dict.get(key, default)
PriceGet(base_prices, day_offset, default) ==
    IF day_offset + 1 \in DOMAIN base_prices THEN base_prices[day_offset + 1] ELSE default

\* LinearRegression.fit on a history of None raises: a station whose regular
\* price is NULL makes add_price_forecasts raise
AddForecastsRaises(stations) ==
    \E i \in 1..Len(stations) : IsNone(PriceGet(stations[i].base_prices, 0, Some(DefaultPriceMills)))

add_price_forecasts(stations, forecast_days) ==
    [i \in 1..Len(stations) |->
        LET today_price == Val(PriceGet(stations[i].base_prices, 0, Some(DefaultPriceMills)))
            forecasts == generate_forecast(
                today_price, [k \in 1..HistoryDays |-> today_price], forecast_days)
        IN  [stations[i] EXCEPT !.base_prices =
                <<stations[i].base_prices[1]>>
                \o [k \in 1..Len(forecasts) |-> Some(forecasts[k].predicted_price)]]]

\* GasStationData.effective_price, in mills
BasePrice(station, day_offset) ==
    Val(PriceGet(station.base_prices, day_offset,
                 PriceGet(station.base_prices, 0, Some(DefaultPriceMills))))

effective_price(station, day_offset) ==
    RMul(RInt(BasePrice(station, day_offset)),
         RSub(RInt(1), R(station.cashback_percent, 100)))

RECURSIVE RouteKm(_, _)
RouteKm(route_points, i) ==
    IF i = 0 THEN RInt(0)
    ELSE RAdd(RouteKm(route_points, i - 1), SegmentLen(route_points, i))

TotalKm(route_points) == RouteKm(route_points, Len(route_points) - 1)

\* the metadata dict of optimize_fuel_strategy and build_optimization_model
Metadata(stations, route_points, tank_size_liters, efficiency, fuel_percent) ==
    [total_km |-> TotalKm(route_points),
     total_fuel_needed |-> RDiv(RMul(TotalKm(route_points), RInt(efficiency)), RInt(100)),
     initial_fuel |-> RMul(RInt(tank_size_liters), R(fuel_percent, 100)),
     stations |-> stations,
     route_points |-> route_points,
     efficiency |-> efficiency,
     tank_size |-> tank_size_liters]

\* build_optimization_model: the index sets, the prices and the right-hand
\* sides of the constraints; raises ValueError when there is no station
build_optimization_model(stations, route_points, tank_size_liters, efficiency, initial_fuel_pct, forecast_days) ==
    LET metadata == Metadata(stations, route_points, tank_size_liters,
                             efficiency, initial_fuel_pct)
    IN  IF Len(stations) = 0
        THEN [raised |-> TRUE]
        ELSE [raised |-> FALSE,
              STATIONS |-> 1..Len(stations),
              DAYS |-> 0..(forecast_days - 1),
              tank_size |-> RInt(tank_size_liters),
              eff_prices |-> [sd \in (1..Len(stations)) \X (0..(forecast_days - 1)) |->
                                 effective_price(stations[sd[1]], sd[2])],
              fuel_deficit |-> RMax(RInt(0),
                  RAdd(RSub(metadata.total_fuel_needed, metadata.initial_fuel),
                       RInt(ReserveLitersDefault))),
              max_purchase |-> RSub(RAdd(RInt(tank_size_liters), metadata.total_fuel_needed),
                                    metadata.initial_fuel),
              metadata |-> metadata]

----------------------------------------------------------------------------
(* The solved model.  A solution is the set of its fills [s, d, liters]:   *)
(* x[s, d] = 1 and liters[s, d] = liters for a fill, x = 0 and liters = 0  *)
(* for every other pair.                                                   *)

RECURSIVE TotalPurchased(_)
TotalPurchased(fills) ==
    IF fills = {} THEN RInt(0)
    ELSE LET f == CHOOSE x \in fills : TRUE
         IN  RAdd(f.liters, TotalPurchased(fills \ {f}))

\* the constraints of build_optimization_model on a solution
fuel_sufficiency_rule(m, fills) == RGe(TotalPurchased(fills), m.fuel_deficit)
tank_capacity_rule(m, fills) == RLe(TotalPurchased(fills), m.max_purchase)
link_rule(m, fills) ==
    \A f \in fills : RLe(RInt(0), f.liters) /\ RLe(f.liters, m.tank_size)
\* without one_fill_per_station: a station may be used on two days
one_fill_per_station_rule_off(m, fills) == TRUE

one_fill_per_station_rule(m, fills) ==
    \A f, g \in fills : f.s = g.s => f.d = g.d
max_fills_rule(m, fills) == Cardinality(fills) <= MaxFills

IsFeasible(m, fills) ==
    /\ fuel_sufficiency_rule(m, fills)
    /\ tank_capacity_rule(m, fills)
    /\ link_rule(m, fills)
    /\ one_fill_per_station_rule(m, fills)
    /\ max_fills_rule(m, fills)

\* obj_rule
RECURSIVE Objective(_, _)
Objective(m, fills) ==
    IF fills = {} THEN RInt(0)
    ELSE LET f == CHOOSE x \in fills : TRUE
         IN  RAdd(RMul(m.eff_prices[<<f.s, f.d>>], f.liters),
                  Objective(m, fills \ {f}))

\* the amounts a solver can put on a fill: the vertices of the constraints
LitersGrid(m) ==
    { v \in { RInt(0), m.tank_size, m.fuel_deficit, m.max_purchase,
              RSub(m.fuel_deficit, m.tank_size), RSub(m.max_purchase, m.tank_size) }
        : RLe(RInt(0), v) /\ RLe(v, m.tank_size) }

\* the subsets of S with at most k elements
RECURSIVE SubsetsUpTo(_, _)
SubsetsUpTo(S, k) ==
    IF k = 0 THEN {{}}
    ELSE LET smaller == SubsetsUpTo(S, k - 1)
         IN  smaller \cup { p \cup {a} : p \in smaller, a \in S }

\* the assignments considered: up to MaxFills + 1 pairs with x = 1
Assignments(m) ==
    LET Fills == { [s |-> s, d |-> d, liters |-> v]
                     : s \in m.STATIONS, d \in m.DAYS, v \in LitersGrid(m) }
    IN  { fills \in SubsetsUpTo(Fills, MaxFills + 1) :
            \A f, g \in fills : (f.s = g.s /\ f.d = g.d) => f = g }

FeasibleSolutions(m) == { fills \in Assignments(m) : IsFeasible(m, fills) }

OptimalSolutions(m) ==
    LET feasible == FeasibleSolutions(m)
        cost == [fills \in feasible |-> Objective(m, fills)]
    IN  { fills \in feasible : \A other \in feasible : RLe(cost[fills], cost[other]) }

----------------------------------------------------------------------------
(* solve_model and the status test of optimize_fuel_strategy               *)

Solvers == <<"cplex", "cbc", "glpk", "appsi_highs">>

\* str(result.solver.termination_condition), as its characters
StatusText(status) ==
    CASE status = "optimal" -> <<"o","p","t","i","m","a","l">>
      [] status = "feasible" -> <<"f","e","a","s","i","b","l","e">>
      [] status = "infeasible" -> <<"i","n","f","e","a","s","i","b","l","e">>
      [] status = "infeasibleOrUnbounded" ->
            <<"i","n","f","e","a","s","i","b","l","e","O","r",
              "U","n","b","o","u","n","d","e","d">>
      [] status = "unbounded" -> <<"u","n","b","o","u","n","d","e","d">>
      [] status = "maxTimeLimit" -> <<"m","a","x","T","i","m","e","L","i","m","i","t">>
      [] status = "error" -> <<"e","r","r","o","r">>
      [] status = "solver_not_found" ->
            <<"s","o","l","v","e","r","_","n","o","t","_","f","o","u","n","d">>

UpperCase == <<"A","B","C","D","E","F","G","H","I","J","K","L","M",
               "N","O","P","Q","R","S","T","U","V","W","X","Y","Z">>
LowerCase == <<"a","b","c","d","e","f","g","h","i","j","k","l","m",
               "n","o","p","q","r","s","t","u","v","w","x","y","z">>

\* str.lower()
Lower(text) ==
    [i \in 1..Len(text) |->
        IF \E k \in 1..26 : UpperCase[k] = text[i]
        THEN LowerCase[CHOOSE k \in 1..26 : UpperCase[k] = text[i]]
        ELSE text[i]]

\* sub in text
Contains(sub, text) ==
    \E i \in 0..(Len(text) - Len(sub)) : SubSeq(text, i + 1, i + Len(sub)) = sub

\* "optimal" in status.lower() or "feasible" in status.lower()
StatusAccepted(status) ==
    \/ Contains(StatusText("optimal"), Lower(StatusText(status)))
    \/ Contains(StatusText("feasible"), Lower(StatusText(status)))

\* the loop over the solvers: env[i] is "unavailable", "raises" or the
\* termination condition solver i ends with
RECURSIVE SolveFrom(_, _)
SolveFrom(env, i) ==
    IF i > Len(Solvers) THEN "solver_not_found"
    ELSE IF env[i] \in {"unavailable", "raises"} THEN SolveFrom(env, i + 1)
    ELSE env[i]

solve_model(env) == SolveFrom(env, 1)

\* what a solver can end with on the model, and the variable values it then
\* leaves in the model (None: no value was loaded)
SolverAnswers(m) ==
    LET feasible == FeasibleSolutions(m)
    IN  { [status |-> "optimal", sol |-> Some(f)] : f \in OptimalSolutions(m) }
        \cup { [status |-> "feasible", sol |-> Some(f)] : f \in feasible }
        \cup (IF feasible = {}
              THEN { [status |-> st, sol |-> v]
                       : st \in {"infeasible", "infeasibleOrUnbounded"},
                         v \in {None} \cup { Some(f) : f \in
                                 { g \in Assignments(m) : Cardinality(g) <= 1 } } }
              ELSE {})
        \cup { [status |-> st, sol |-> None] : st \in {"unbounded", "maxTimeLimit", "error"} }

\* the solvers before the answering one are all unavailable or all raise
SolverEnvs(answer) ==
    { [i \in 1..Len(Solvers) |->
          IF i < k THEN skip ELSE IF i = k THEN answer ELSE "unavailable"]
        : k \in 1..Len(Solvers), skip \in {"unavailable", "raises"} }

NoSolverEnvs ==
    { [i \in 1..Len(Solvers) |-> IF i <= k THEN "raises" ELSE "unavailable"]
        : k \in 0..Len(Solvers) }

----------------------------------------------------------------------------
(* extract_solution and solve_greedy_heuristic                             *)

\* round(x, 2) of an amount in mills, in cents
RoundCents(a) == RoundHalfEven(RDiv(a, RInt(10)))

Status(tag, detail) == [tag |-> tag, detail |-> detail]

OptimizationResult(stops, total_cost, total_savings, reasoning, solver_status) ==
    [kind |-> "returned",
     stops |-> stops,
     total_cost |-> total_cost,
     total_savings |-> total_savings,
     reasoning |-> reasoning,
     solver_status |-> solver_status]

\* an exception leaving the function
Raised(exception) ==
    [kind |-> "raised",
     stops |-> <<>>,
     total_cost |-> 0,
     total_savings |-> 0,
     reasoning |-> <<exception>>,
     solver_status |-> Status("none", exception)]

SampleStepKm == 10             \* range(0, int(total_km) + 1, 10)
StopWindowKm == 5              \* abs(km - stop_km) < 5

\* sample_points: every 10 km up to int(total_km), and int(total_km) appended
\* when total_km itself is not one of them
SamplePoints(total_km) ==
    LET last == RFloor(total_km)
        steps == [i \in 1..((last \div SampleStepKm) + 1) |-> (i - 1) * SampleStepKm]
    IN  IF \E i \in DOMAIN steps : RInt(steps[i]) = total_km
        THEN steps ELSE Append(steps, last)

\* stop_kms = {s.km_at_stop: s for s in stops}: a later stop at the same km
\* replaces the earlier one and keeps its place
RECURSIVE StopKms(_, _)
StopKms(stops, k) ==
    IF k = 0 THEN <<>>
    ELSE LET prev == StopKms(stops, k - 1)
             same == { j \in DOMAIN prev : prev[j].km_at_stop = stops[k].km_at_stop }
         IN  IF same = {} THEN Append(prev, stops[k])
             ELSE [j \in DOMAIN prev |-> IF j \in same THEN stops[k] ELSE prev[j]]

\* current_fuel = min(current_fuel, tank_size)
ClampToTankOff(current_fuel, tank_size) == current_fuel

ClampToTank(current_fuel, tank_size) == RMin(current_fuel, RInt(tank_size))

\* abs(km - stop_km) < 5
InStopWindow(km, stop_km) == RLt(RAbs(RSub(RInt(km), stop_km)), RInt(StopWindowKm))

\* the loop over stop_kms at one sample point: current_fuel and action after
\* the first j stops ("FILL {liters:.0f}L at {name}" is kept as the pair)
RECURSIVE FillAt(_, _, _, _, _)
FillAt(current_fuel, km, stop_kms, tank_size, j) ==
    IF j = 0 THEN [current_fuel |-> current_fuel, action |-> None]
    ELSE LET prev == FillAt(current_fuel, km, stop_kms, tank_size, j - 1)
             stop == stop_kms[j]
         IN  IF InStopWindow(km, stop.km_at_stop)
             THEN [current_fuel |-> ClampToTank(RAdd(prev.current_fuel, stop.liters_to_fill), tank_size),
                   action |-> Some(<<RoundHalfEven(stop.liters_to_fill), stop.station>>)]
             ELSE prev

\* one iteration of the loop over sample_points: prev is current_fuel and the
\* projection before it, prev_km the previous sample point
SampleStep(prev, km, prev_km, stop_kms, tank_size, efficiency) ==
    LET consumed == RDiv(RMul(RInt(km - prev_km), RInt(efficiency)), RInt(100))
        filled == FillAt(RSub(prev.current_fuel, consumed), km, stop_kms, tank_size, Len(stop_kms))
        fuel_pct == RMul(RDiv(filled.current_fuel, RInt(tank_size)), RInt(100))
    IN  [current_fuel |-> filled.current_fuel,
         projection |-> Append(prev.projection,
                               [km |-> km,
                                fuel_pct |-> Round1(RMax(RInt(0), fuel_pct)),
                                action |-> filled.action])]

\* the loop over sample_points: current_fuel and the projection after the
\* first i sample points (the state before an iteration is bound as one value)
RECURSIVE ProjectionUpTo(_, _, _, _, _, _)
ProjectionUpTo(sample_points, stop_kms, initial_fuel, tank_size, efficiency, i) ==
    IF i = 0 THEN [current_fuel |-> initial_fuel, projection |-> <<>>]
    ELSE LET km == sample_points[i]
             prev_km == IF i = 1 THEN 0 ELSE sample_points[i - 1]
         IN  CHOOSE next \in { SampleStep(prev, km, prev_km, stop_kms, tank_size, efficiency) :
                               prev \in {ProjectionUpTo(sample_points, stop_kms, initial_fuel, tank_size, efficiency, i - 1)} } : TRUE

build_fuel_projection(stops, route_points, initial_fuel, tank_size, efficiency) ==
    LET sample_points == SamplePoints(TotalKm(route_points))
    IN  ProjectionUpTo(sample_points, StopKms(stops, Len(stops)), initial_fuel, tank_size, efficiency, Len(sample_points)).projection

\* stops.sort(key = km_at_stop): stable
RECURSIVE InsertByStopKm(_, _)
InsertByStopKm(sorted, stop) ==
    IF sorted = <<>> THEN <<stop>>
    ELSE LET last == sorted[Len(sorted)]
         IN  IF RLe(last.km_at_stop, stop.km_at_stop) THEN Append(sorted, stop)
             ELSE Append(InsertByStopKm(SubSeq(sorted, 1, Len(sorted) - 1), stop), last)

RECURSIVE SortStops(_)
SortStops(seq) ==
    IF seq = <<>> THEN <<>>
    ELSE InsertByStopKm(SortStops(SubSeq(seq, 1, Len(seq) - 1)), seq[Len(seq)])

\* the stop built for x[s, d] = 1 with the given liters
ExtractedStop(stations, s, d, liters) ==
    LET station == stations[s]
        eff_price == effective_price(station, d)
        base_price == BasePrice(station, d)
        card_savings == RMul(RMul(liters, RInt(base_price)), R(station.cashback_percent, 100))
        today_price == effective_price(station, 0)
        timing_savings == IF RGt(today_price, eff_price)
                          THEN RMul(RSub(today_price, eff_price), liters)
                          ELSE RInt(0)
    IN  [station |-> station.id,
         day_offset |-> d,
         liters_to_fill |-> Round1(liters),
         effective_price |-> RoundHalfEven(eff_price),
         base_price |-> base_price,
         card_to_use |-> station.best_card,
         fuel_level_before |-> RInt(0),
         fuel_level_after |-> RInt(0),
         km_at_stop |-> station.km_along_route,
         savings_from_card |-> RoundCents(card_savings),
         savings_from_timing |-> RoundCents(timing_savings),
         cost |-> RMul(liters, eff_price),
         savings |-> RAdd(card_savings, timing_savings)]

\* the loops over STATIONS and DAYS: the stops appended up to pair number k,
\* the pairs taken station by station and day by day
RECURSIVE ExtractedStops(_, _, _)
ExtractedStops(m, fills, k) ==
    IF k = 0 THEN <<>>
    ELSE LET nd == Cardinality(m.DAYS)
             s == ((k - 1) \div nd) + 1
             d == (k - 1) % nd
             rest == ExtractedStops(m, fills, k - 1)
             here == { f \in fills : f.s = s /\ f.d = d }
         IN  IF here = {} THEN rest
             ELSE LET liters == (CHOOSE f \in here : TRUE).liters
                  IN  IF RGt(liters, R(MinStopDeciliters, 10))
                      THEN Append(rest, ExtractedStop(m.metadata.stations, s, d, liters))
                      ELSE rest

RECURSIVE SumField(_, _, _)
SumField(stops, k, field) ==
    IF k = 0 THEN RInt(0) ELSE RAdd(stops[k][field], SumField(stops, k - 1, field))

\* value() of a variable that holds no value raises ValueError
extract_solution(m, sol) ==
    IF IsNone(sol) THEN Raised("ValueError")
    ELSE LET stops == ExtractedStops(m, Val(sol),
                                     Cardinality(m.STATIONS) * Cardinality(m.DAYS))
         IN  OptimizationResult(
                 SortStops(stops),
                 RoundCents(SumField(stops, Len(stops), "cost")),
                 RoundCents(SumField(stops, Len(stops), "savings")),
                 IF stops = <<>> THEN <<"No fill-up needed">> ELSE <<"Fill at station">>,
                 Status("optimal", ""))

\* an unstable sort: of two candidates of the same price the later one comes first
RECURSIVE InsertByPriceUnstable(_, _)
InsertByPriceUnstable(sorted, s) ==
    IF sorted = <<>> THEN <<s>>
    ELSE LET last == sorted[Len(sorted)]
         IN  IF RLt(effective_price(last, 0), effective_price(s, 0)) THEN Append(sorted, s)
             ELSE Append(InsertByPriceUnstable(SubSeq(sorted, 1, Len(sorted) - 1), s), last)

\* candidates.sort(key = effective_price(0)): stable
RECURSIVE InsertByPrice(_, _)
InsertByPrice(sorted, s) ==
    IF sorted = <<>> THEN <<s>>
    ELSE LET last == sorted[Len(sorted)]
         IN  IF RLe(effective_price(last, 0), effective_price(s, 0)) THEN Append(sorted, s)
             ELSE Append(InsertByPrice(SubSeq(sorted, 1, Len(sorted) - 1), s), last)

RECURSIVE SortByPrice(_)
SortByPrice(seq) ==
    IF seq = <<>> THEN <<>>
    ELSE InsertByPrice(SortByPrice(SubSeq(seq, 1, Len(seq) - 1)), seq[Len(seq)])

\* [s for s in stations if s.km_along_route <= reachable_range_km]
RECURSIVE Reachable(_, _, _)
Reachable(stations, reachable_range_km, k) ==
    IF k = 0 THEN <<>>
    ELSE LET rest == Reachable(stations, reachable_range_km, k - 1)
         IN  IF RLe(stations[k].km_along_route, reachable_range_km)
             THEN Append(rest, stations[k]) ELSE rest

\* the amount the greedy planner adds at its station
GreedyLitersUncapped(metadata, best_station) ==
    LET efficiency == RInt(metadata.efficiency)
        dist_remaining == RSub(metadata.total_km, best_station.km_along_route)
        fuel_for_remainder == RDiv(RMul(dist_remaining, efficiency), RInt(100))
        target_fill == RAdd(fuel_for_remainder, RInt(GreedyBufferLiters))
        fuel_on_arrival == RSub(metadata.initial_fuel,
            RDiv(RMul(best_station.km_along_route, efficiency), RInt(100)))
    IN  RSub(target_fill, fuel_on_arrival)

GreedyLiters(metadata, best_station) ==
    LET efficiency == RInt(metadata.efficiency)
        dist_remaining == RSub(metadata.total_km, best_station.km_along_route)
        fuel_for_remainder == RDiv(RMul(dist_remaining, efficiency), RInt(100))
        target_fill == RAdd(fuel_for_remainder, RInt(GreedyBufferLiters))
        fuel_on_arrival == RSub(metadata.initial_fuel,
            RDiv(RMul(best_station.km_along_route, efficiency), RInt(100)))
        liters_to_add == RSub(target_fill, fuel_on_arrival)
        space_in_tank == RSub(RInt(metadata.tank_size), fuel_on_arrival)
    IN  RMin(liters_to_add, space_in_tank)

solve_greedy_heuristic(metadata) ==
    IF RGe(metadata.initial_fuel, metadata.total_fuel_needed)
    THEN OptimizationResult(<<>>, 0, 0, <<"No stops needed">>,
                            Status("heuristic_no_stop", ""))
    ELSE LET reachable_range_km ==
                 RMul(RDiv(metadata.initial_fuel, RInt(metadata.efficiency)), RInt(100))
             candidates == SortByPrice(Reachable(metadata.stations, reachable_range_km,
                                                 Len(metadata.stations)))
         IN  IF candidates = <<>>
             THEN OptimizationResult(<<>>, 0, 0, <<"No reachable stations found">>,
                                     Status("heuristic_failed", ""))
             ELSE LET best_station == candidates[1]
                      liters_to_add == GreedyLiters(metadata, best_station)
                      fuel_on_arrival == RSub(metadata.initial_fuel,
                          RDiv(RMul(best_station.km_along_route, RInt(metadata.efficiency)),
                               RInt(100)))
                      price == effective_price(best_station, 0)
                      cost == RMul(liters_to_add, price)
                      base_price == BasePrice(best_station, 0)
                      savings == RMul(RMul(liters_to_add, RInt(base_price)),
                                      R(best_station.cashback_percent, 100))
                      stop == [station |-> best_station.id,
                               day_offset |-> 0,
                               liters_to_fill |-> Round1(liters_to_add),
                               effective_price |-> RoundHalfEven(price),
                               base_price |-> base_price,
                               card_to_use |-> best_station.best_card,
                               fuel_level_before |-> Round1(fuel_on_arrival),
                               fuel_level_after |-> Round1(RAdd(fuel_on_arrival, liters_to_add)),
                               km_at_stop |-> best_station.km_along_route,
                               savings_from_card |-> RoundCents(savings),
                               savings_from_timing |-> 0,
                               cost |-> cost,
                               savings |-> savings]
                  IN  OptimizationResult(<<stop>>, RoundCents(cost), RoundCents(savings),
                                         <<"Heuristic Recommendation">>,
                                         Status("heuristic_optimal", ""))

----------------------------------------------------------------------------
(* Inputs of the decision engine                                           *)

MaxFuelPercentStep == 25       \* fuel_percent in 0, 2, .., 2 * MaxFuelPercentStep
MaxTripStep == 5               \* planned_trip_km in 0, 35, .., 35 * MaxTripStep
MaxDistanceStep == 2           \* distance_since_fillup_km in 0, 225, ..
MaxDeltaMills == 25            \* predicted price within +-MaxDeltaMills of a base

Vehicles ==
    { [tank |-> 50, eff |-> 10, reserve_pct |-> 10],
      [tank |-> 50, eff |-> 8,  reserve_pct |-> 10],
      [tank |-> 40, eff |-> 5,  reserve_pct |-> 0] }

FuelPercents == {2 * k : k \in 0..MaxFuelPercentStep}
TripKms == {35 * k : k \in 0..MaxTripStep} \cup {500}
DistancesKm == {225 * k : k \in 0..MaxDistanceStep}
PricePairs ==
    { <<None, None>>, <<Some(RInt(1400)), None>>, <<None, Some(RInt(1500))>>,
      <<Some(RInt(1400)), Some(RInt(1500))>>, <<Some(RInt(1400)), Some(RInt(1420))>>,
      <<Some(RInt(1400)), Some(RInt(1419))>>, <<Some(RInt(1400)), Some(RInt(1400))>>,
      <<Some(RInt(1400)), Some(RInt(1380))>>,
      <<Some(RInt(1400)), Some(R(14196, 10))>>, <<Some(RInt(1400)), Some(R(14004, 10))>> }

Anchors ==
    { [type |-> "percent", pct |-> Some(p), dist |-> None] : p \in FuelPercents }
    \cup { [type |-> "last_full_fillup_date", pct |-> None, dist |-> Some(d)]
           : d \in DistancesKm }
    \cup { [type |-> "percent", pct |-> None, dist |-> Some(0)],
           [type |-> "last_full_fillup_date", pct |-> Some(10), dist |-> None],
           [type |-> "last_full_fillup_date", pct |-> None, dist |-> Some(532)] }

DecisionInputs ==
    { [vehicle |-> v,
       fuel_anchor_type |-> a.type,
       fuel_percent |-> a.pct,
       distance_since_fillup_km |-> a.dist,
       planned_trip_km |-> t,
       today_price |-> pp[1],
       predicted_tomorrow |-> pp[2]]
      : v \in Vehicles, a \in Anchors,
        t \in {None} \cup {Some(k) : k \in TripKms}, pp \in PricePairs }

DecInit == din \in DecisionInputs /\ dres = None
DecIdle == din = None /\ dres = None

\* a caller evaluates make_decision on its input
MakeDecision ==
    /\ dres = None
    /\ dres' = Some(make_decision(din))
    /\ UNCHANGED <<din, litersVars, rangeVars, trendVars, optVars, greedyVars>>

\* calculate_liters_remaining called on its own
LitersInputs ==
    { [vehicle |-> v,
       fuel_anchor_type |-> a.type,
       fuel_percent |-> a.pct,
       distance_since_fillup_km |-> a.dist]
      : v \in Vehicles,
        a \in Anchors \cup
              { [type |-> "percent", pct |-> Some(100), dist |-> None],
                [type |-> "percent", pct |-> Some(50), dist |-> Some(100)],
                [type |-> "percent", pct |-> None, dist |-> None],
                [type |-> "last_full_fillup_date", pct |-> Some(50), dist |-> Some(100)],
                [type |-> "last_full_fillup_date", pct |-> None, dist |-> Some(1000)],
                [type |-> "last_full_fillup_date", pct |-> None, dist |-> None] } }

LitersInit == lin \in LitersInputs /\ lres = None

CalculateLitersRemaining ==
    /\ lres = None
    /\ lres' = Some(calculate_liters_remaining(lin.vehicle, lin.fuel_anchor_type, lin.fuel_percent, lin.distance_since_fillup_km))
    /\ UNCHANGED <<lin, din, dres, rangeVars, trendVars, optVars, greedyVars>>

\* calculate_range_km called twice for one vehicle; liters in half liters
MaxHalfLiters == 24            \* liters_remaining in 0, 0.5, .., MaxHalfLiters / 2

RangeInputs ==
    { [vehicle |-> v, liters_a |-> R(a, 2), liters_b |-> R(b, 2)]
      : v \in Vehicles, a \in 0..MaxHalfLiters, b \in 0..MaxHalfLiters }

RangeInit == rin \in RangeInputs /\ rres = None

CalculateRangeKm ==
    /\ rres = None
    /\ rres' = Some(<<calculate_range_km(rin.liters_a, ReserveLiters(rin.vehicle), rin.vehicle.eff), calculate_range_km(rin.liters_b, ReserveLiters(rin.vehicle), rin.vehicle.eff)>>)
    /\ UNCHANGED <<rin, din, dres, litersVars, trendVars, optVars, greedyVars>>

\* generate_forecast called on its own
MaxHistory == 4                \* len(historical_prices) is at most MaxHistory
MaxDays == 3                   \* days in 1..MaxDays

\* the arithmetic series of n prices with difference d ending at p, newest first
LinearHistory(p, d, n) == [i \in 1..n |-> p - (i - 1) * d]

Histories ==
    { h \in { LinearHistory(p, d, n) : p \in {25, 30, 1400, 1700},
                                       d \in {-20, -10, 0, 10, 100},
                                       n \in 2..MaxHistory }
        : \A i \in DOMAIN h : h[i] > 0 }
    \cup { <<>>, <<1400>>, <<1400, 1500, 1400>>, <<1450, 1440, 1420>> }

ForecastInputs ==
    { [today_price |-> t, historical_prices |-> h, days |-> n]
      : h \in Histories, t \in {1450, 30}, n \in 1..MaxDays }
    \cup { [today_price |-> h[1], historical_prices |-> h, days |-> n]
           : h \in Histories \ {<<>>}, n \in 1..MaxDays }

ForecastInit == fin \in ForecastInputs /\ fres = None

GenerateForecast ==
    /\ fres = None
    /\ fres' = Some(generate_forecast(fin.today_price, fin.historical_prices, fin.days))
    /\ UNCHANGED <<fin, tin, tres, ptres, decVars, optVars, greedyVars>>

TrendPrices == {1400 + m : m \in (-MaxDeltaMills)..MaxDeltaMills}
TrendInit == tin \in {<<800, 820>>, <<1450, 1470>>} \cup ({1400, 1450} \X TrendPrices) /\ tres = None /\ ptres = None
TrendIdle == tin = None /\ tres = None /\ ptres = None

\* a caller evaluates calculate_trend on its two prices
CalculateTrend ==
    /\ tres = None
    /\ tres' = Some(calculate_trend(RInt(tin[1]), RInt(tin[2])))
    /\ UNCHANGED <<tin, ptres, forecastVars, decVars, optVars, greedyVars>>

\* a caller evaluates calculate_price_trend on the same two prices
CalculatePriceTrend ==
    /\ ptres = None
    /\ ptres' = calculate_price_trend(Some(RInt(tin[1])), Some(RInt(tin[2]))).trend
    /\ UNCHANGED <<tin, tres, forecastVars, decVars, optVars, greedyVars>>

TrendNext == CalculateTrend \/ CalculatePriceTrend

----------------------------------------------------------------------------
(* optimize_fuel_strategy                                                  *)

MaxStations == 2               \* len(all_stations) is at most MaxStations
MaxForecastDays == 2           \* forecast_days in 1..MaxForecastDays

\* TripPoint(lat = p['lat'], lng = p['lng'])
TripPoint(lat, lng) == [lat |-> lat, lng |-> lng]
Point(lat) == TripPoint(RInt(lat), RInt(0))
RouteOf(lats) == [i \in 1..Len(lats) |-> Point(lats[i])]

\* station dicts as the route handler builds them: 'regular' is the nullable
\* column GasStation.regular
StationDicts(lats, prices) ==
    UNION { [1..n -> [lat : lats, lng : {0}, regular : prices]] : n \in 0..MaxStations }
WithIds(dicts) ==
    [i \in 1..Len(dicts) |->
        [id |-> i, lat |-> dicts[i].lat, lng |-> dicts[i].lng, regular |-> dicts[i].regular]]

CardLists ==
    { <<>>,
      <<[provider |-> "visa", cashback |-> Some(2)],
        [provider |-> "amex", cashback |-> Some(5)],
        [provider |-> "debit", cashback |-> None]>> }

OptimizeInputs ==
    { [route_points |-> RouteOf(r),
       all_stations |-> WithIds(st),
       user_cards |-> c,
       tank_size_liters |-> 20,
       efficiency_l_per_100km |-> 10,
       current_fuel_percent |-> p,
       search_radius_km |-> rad,
       forecast_days |-> fd]
      : r \in {<<0, 200>>, <<0, 100, 300>>, <<0, 400, 1000>>},
        st \in StationDicts({50, 250}, {None, Some(1400), Some(1500)}),
        c \in CardLists,
        p \in {0, 50, 100},
        rad \in {20, 60},
        fd \in 1..MaxForecastDays }

OptInit ==
    /\ oin \in OptimizeInputs
    /\ pc = "start"
    /\ opt_stations = <<>>
    /\ opt_model = None
    /\ opt_status = None
    /\ opt_sol = None
    /\ ores = None
    /\ called = {}

OptIdle ==
    /\ oin = None
    /\ pc = "idle"
    /\ opt_stations = <<>>
    /\ opt_model = None
    /\ opt_status = None
    /\ opt_sol = None
    /\ ores = None
    /\ called = {}

NoStationsResult ==
    OptimizationResult(<<>>, 0, 0, <<"No gas stations found within search radius of route">>,
                       Status("no_stations", ""))

\* the result built in the else branch and in the except clause
ErrorResult(reasoning, detail) ==
    OptimizationResult(<<>>, 0, 0, <<reasoning>>, Status("error", detail))

\* FindStations without the early return on an empty list
FindStationsNoEarlyReturn ==
    /\ pc = "start"
    /\ opt_stations' = find_stations_along_route(oin.route_points, oin.all_stations,
                                                 oin.search_radius_km)
    /\ pc' = "found"
    /\ called' = called \cup {"find_stations_along_route"}
    /\ UNCHANGED <<oin, opt_model, opt_status, opt_sol, ores, decVars, trendVars, greedyVars>>

\* lines 531-545: the route is converted and matched; no station ends the call
FindStations ==
    /\ pc = "start"
    /\ LET found == find_stations_along_route(oin.route_points, oin.all_stations,
                                              oin.search_radius_km)
       IN  /\ opt_stations' = found
           /\ IF found = <<>>
              THEN pc' = "done" /\ ores' = Some(NoStationsResult)
              ELSE pc' = "found" /\ ores' = ores
    /\ called' = called \cup {"find_stations_along_route"}
    /\ UNCHANGED <<oin, opt_model, opt_status, opt_sol, decVars, trendVars, greedyVars>>

\* lines 547-551, outside the try: an exception leaves optimize_fuel_strategy
AnnotateStations ==
    /\ pc = "found"
    /\ called' = called \cup {"apply_card_benefits", "add_price_forecasts"}
    /\ LET with_cards == apply_card_benefits(opt_stations, oin.user_cards)
       IN  IF AddForecastsRaises(with_cards)
           THEN /\ opt_stations' = with_cards
                /\ pc' = "done"
                /\ ores' = Some(Raised("TypeError"))
           ELSE /\ opt_stations' = add_price_forecasts(with_cards, oin.forecast_days)
                /\ pc' = "annotated"
                /\ ores' = ores
    /\ UNCHANGED <<oin, opt_model, opt_status, opt_sol, decVars, trendVars, greedyVars>>

\* lines 574-582, inside the try
BuildModel ==
    /\ pc = "annotated"
    /\ called' = called \cup {"build_optimization_model"}
    /\ LET m == build_optimization_model(opt_stations, oin.route_points, oin.tank_size_liters,
                   oin.efficiency_l_per_100km, oin.current_fuel_percent, oin.forecast_days)
       IN  IF m.raised
           THEN /\ opt_model' = opt_model
                /\ pc' = "done"
                /\ ores' = Some(ErrorResult("Optimization Error", "ValueError"))
           ELSE /\ opt_model' = Some(m)
                /\ pc' = "built"
                /\ ores' = ores
    /\ UNCHANGED <<oin, opt_stations, opt_status, opt_sol, decVars, trendVars, greedyVars>>

\* line 584: some solver answers, or none is found
SolveModel ==
    /\ pc = "built"
    /\ called' = called \cup {"solve_model"}
    /\ \/ \E answer \in SolverAnswers(Val(opt_model)) : \E env \in SolverEnvs(answer.status) :
             /\ opt_status' = Some(solve_model(env))
             /\ opt_sol' = answer.sol
       \/ \E env \in NoSolverEnvs :
             /\ opt_status' = Some(solve_model(env))
             /\ opt_sol' = None
    /\ pc' = "solved"
    /\ UNCHANGED <<oin, opt_stations, opt_model, ores, decVars, trendVars, greedyVars>>

\* lines 586-608: the status test, extract_solution and the except clause
ReturnResult ==
    /\ pc = "solved"
    /\ IF StatusAccepted(Val(opt_status))
       THEN /\ called' = called \cup {"extract_solution"}
            /\ LET r == extract_solution(Val(opt_model), opt_sol)
               IN  ores' = Some(IF r.kind = "raised"
                                THEN ErrorResult("Optimization Error", r.solver_status.detail)
                                ELSE r)
       ELSE /\ called' = called
            /\ ores' = Some(ErrorResult("CPLEX Optimization Failed", Val(opt_status)))
    /\ pc' = "done"
    /\ UNCHANGED <<oin, opt_stations, opt_model, opt_status, opt_sol,
                   decVars, trendVars, greedyVars>>

OptNext == FindStations \/ AnnotateStations \/ BuildModel \/ SolveModel \/ ReturnResult

----------------------------------------------------------------------------
(* solve_greedy_heuristic on the metadata optimize_fuel_strategy builds    *)

MaxFuelSteps == 4              \* current_fuel_percent in MaxFuelSteps equal steps to 100

GreedyInputs ==
    { [route_points |-> RouteOf(r),
       all_stations |-> WithIds(st),
       user_cards |-> c,
       tank_size_liters |-> v[1],
       efficiency_l_per_100km |-> v[2],
       current_fuel_percent |-> (100 * q) \div MaxFuelSteps,
       search_radius_km |-> 60,
       forecast_days |-> 1]
      : r \in {<<0, 200>>, <<0, 100, 300>>, <<0, 400, 1000>>, <<0, 300, 100>>, <<0, 101, 1001>>},
        st \in StationDicts({50, 250}, {Some(1400), Some(1500)}),
        c \in CardLists,
        v \in {<<20, 10>>, <<50, 8>>},
        q \in 0..MaxFuelSteps }

\* lines 532-570 of optimize_fuel_strategy: the stations and the metadata
GreedyMetadata(in) ==
    Metadata(add_price_forecasts(
                 apply_card_benefits(
                     find_stations_along_route(in.route_points, in.all_stations,
                                               in.search_radius_km),
                     in.user_cards),
                 in.forecast_days),
             in.route_points, in.tank_size_liters, in.efficiency_l_per_100km,
             in.current_fuel_percent)

GreedyInit == gin \in GreedyInputs /\ gres = None
GreedyIdle == gin = None /\ gres = None

GreedyPlan ==
    /\ gres = None
    /\ gres' = Some(solve_greedy_heuristic(GreedyMetadata(gin)))
    /\ UNCHANGED <<gin, projectionVars, stationsVars, cardVars, providerVars, decVars, trendVars, optVars>>

----------------------------------------------------------------------------
(* build_fuel_projection called on a plan                                  *)

MaxStops == 2                  \* len(stops) is at most MaxStops

\* FillUpStop: the fields build_fuel_projection reads
\* (station 2 stands at km 10, where station 1 may stand as well)
PlanStops ==
    { [station |-> n, km_at_stop |-> km, liters_to_fill |-> RInt(l)]
      : n \in {1}, km \in {RInt(10), RInt(15), RInt(30), RInt(43), R(95, 2)}, l \in {5, 20} }
    \cup { [station |-> 2, km_at_stop |-> RInt(10), liters_to_fill |-> RInt(5)] }

Plans == UNION { [1..n -> PlanStops] : n \in 0..MaxStops }

\* routes of 20, 47, 103, 47.5 and 40.5 km
ProjectionRoutes ==
    { <<RInt(0), RInt(20)>>, <<RInt(0), RInt(47)>>, <<RInt(0), RInt(60), RInt(103)>>,
      <<RInt(0), R(95, 2)>>, <<RInt(0), R(81, 2)>> }

ProjectionInputs ==
    { [stops |-> st,
       route_points |-> [i \in 1..Len(r) |-> TripPoint(r[i], RInt(0))],
       initial_fuel |-> RInt(f),
       tank_size |-> 20,
       efficiency |-> e]
      : st \in Plans,
        r \in ProjectionRoutes,
        f \in {0, 10, 20},
        e \in {10, 30} }

ProjectionInit == pin \in ProjectionInputs /\ pres = None

BuildFuelProjection ==
    /\ pres = None
    /\ pres' = Some(build_fuel_projection(pin.stops, pin.route_points, pin.initial_fuel, pin.tank_size, pin.efficiency))
    /\ UNCHANGED <<pin, gin, gres, stationsVars, cardVars, providerVars, decVars, trendVars, optVars>>

\* routes of find_stations_along_route: one segment, two segments, a route
\* driven southwards, a segment of length 0, and a route without a segment
StationRoutes == {<<0, 200>>, <<0, 100, 300>>, <<200, 0>>, <<100, 100>>, <<100>>}

StationsInputs ==
    { [route_points |-> RouteOf(r),
       all_stations |-> WithIds(st),
       radius_km |-> rad]
      : r \in StationRoutes,
        st \in StationDicts({-20, 0, 50, 220, 250}, {Some(1400)}),
        rad \in {20, 50} }

StationsInit == sin \in StationsInputs /\ sres = None

MaxCards == 3                  \* len(user_cards) is at most MaxCards

\* the dicts of user_cards: 'cashback' may be null or 0
UserCards == [provider : {"visa", "amex", "debit"}, cashback : {None, Some(0), Some(2), Some(5)}]

CardsInputs ==
    { [stations |-> find_stations_along_route(RouteOf(<<0, 200>>), WithIds(st), 20),
       user_cards |-> c]
      : st \in { <<>>, <<[lat |-> 50, lng |-> 0, regular |-> Some(1400)]>>,
                 <<[lat |-> 150, lng |-> 0, regular |-> Some(1500)], [lat |-> 50, lng |-> 0, regular |-> Some(1400)]>> },
        c \in UNION { [1..n -> UserCards] : n \in 0..MaxCards } }

CardsInit == cin \in CardsInputs /\ cres = None

ApplyCardBenefits ==
    /\ cres = None
    /\ cres' = Some(apply_card_benefits(cin.stations, cin.user_cards))
    /\ UNCHANGED <<cin, gin, gres, projectionVars, stationsVars, providerVars, decVars, trendVars, optVars>>

FindStationsAlongRoute ==
    /\ sres = None
    /\ sres' = Some(find_stations_along_route(sin.route_points, sin.all_stations, sin.radius_km))
    /\ UNCHANGED <<sin, gin, gres, projectionVars, cardVars, providerVars, decVars, trendVars, optVars>>

----------------------------------------------------------------------------
(* backend/app/services/credit_card_benefits.py: get_supported_providers   *)

MaxCalls == 3                  \* concurrent requests for /credit-cards/providers

DEFAULT_PROVIDERS ==
    << "Chase Freedom Flex", "Chase Freedom Unlimited", "Chase Sapphire Preferred",
       "Citi Custom Cash Card", "American Express Blue Cash Preferred",
       "Costco Anywhere Visa Card by Citi", "Bank of America Customized Cash Rewards",
       "Wells Fargo Autograph Card", "Discover it Cash Back", "Capital One SavorOne",
       "PNC Cash Rewards Visa", "Sam's Club Mastercard" >>

\* what generate_content and json.loads give one call: a list, something that
\* is not a list, or an exception
Responses ==
    { [kind |-> "list", providers |-> <<"Card A">>],
      [kind |-> "list", providers |-> <<"Card B", "Card C">>],
      [kind |-> "list", providers |-> <<>>],
      [kind |-> "dict", providers |-> <<>>],
      [kind |-> "raises", providers |-> <<>>] }

\* isinstance(providers, list) and len(providers) > 0
ValidProviders(response) == response.kind = "list" /\ Len(response.providers) > 0

\* an await inside the body with a suspended coroutine two requests could run
\* into each other between the test and the assignment
AwaitPointsAtFetch == {"fetch"}

\* the positions of the body at which the coroutine awaits: there is none, the
\* call of generate_content is synchronous
AwaitPoints == {}

\* the event loop runs call c when it runs nothing else or when the coroutine
\* it was running is suspended at an await
CanRun(c) == IF running \in {0, c} THEN TRUE ELSE calls[running].pos \in AwaitPoints

Return(c, providers) == [calls EXCEPT ![c].pos = "returned", ![c].result = Some(providers)]

\* lines 208-210: if _PROVIDERS_CACHE is not None: return _PROVIDERS_CACHE
CheckCache(c) ==
    /\ calls[c].pos = "pending"
    /\ CanRun(c)
    /\ IF ~IsNone(PROVIDERS_CACHE)
       THEN calls' = Return(c, Val(PROVIDERS_CACHE)) /\ running' = 0
       ELSE calls' = [calls EXCEPT ![c].pos = "client"] /\ running' = c
    /\ UNCHANGED <<PROVIDERS_CACHE, has_client>>

\* lines 212-217: client = get_genai_client(); without one the defaults are
\* stored and returned
GetClient(c) ==
    /\ calls[c].pos = "client"
    /\ CanRun(c)
    /\ IF ~has_client
       THEN /\ PROVIDERS_CACHE' = Some(DEFAULT_PROVIDERS)
            /\ calls' = Return(c, DEFAULT_PROVIDERS)
            /\ running' = 0
       ELSE /\ PROVIDERS_CACHE' = PROVIDERS_CACHE
            /\ calls' = [calls EXCEPT ![c].pos = "fetch"]
            /\ running' = c
    /\ UNCHANGED has_client

\* lines 219-268: the answer is stored and returned when it is a non-empty
\* list, and otherwise the except clause stores and returns the defaults
Fetch(c) ==
    /\ calls[c].pos = "fetch"
    /\ CanRun(c)
    /\ LET providers == IF ValidProviders(calls[c].response)
                        THEN calls[c].response.providers ELSE DEFAULT_PROVIDERS
       IN  /\ PROVIDERS_CACHE' = Some(providers)
           /\ calls' = Return(c, providers)
    /\ running' = 0
    /\ UNCHANGED has_client

GetSupportedProviders(c) == CheckCache(c) \/ GetClient(c) \/ Fetch(c)

notProviderVars == <<gin, gres, projectionVars, stationsVars, cardVars, decVars, trendVars, optVars>>

ProvidersNext == \E c \in 1..MaxCalls : GetSupportedProviders(c) /\ UNCHANGED notProviderVars

\* MaxCalls requests are waiting, the cache is empty as at the start of the
\* server, and each request has the answer the search would give it
ProvidersInit ==
    /\ PROVIDERS_CACHE = None
    /\ has_client \in BOOLEAN
    /\ calls \in [1..MaxCalls -> [pos : {"pending"}, result : {None}, response : Responses]]
    /\ running = 0

----------------------------------------------------------------------------
(* Specifications                                                          *)

LitersIdle == lin = None /\ lres = None
RangeIdle == rin = None /\ rres = None
ForecastIdle == fin = None /\ fres = None
ProjectionIdle == pin = None /\ pres = None
StationsIdle == sin = None /\ sres = None
CardsIdle == cin = None /\ cres = None
ProvidersIdle == PROVIDERS_CACHE = None /\ has_client = FALSE /\ calls = <<>> /\ running = 0

InitDecision == DecInit /\ LitersIdle /\ RangeIdle /\ TrendIdle /\ ForecastIdle /\ OptIdle /\ GreedyIdle /\ ProjectionIdle /\ StationsIdle /\ CardsIdle /\ ProvidersIdle
InitTrend == TrendInit /\ DecIdle /\ LitersIdle /\ RangeIdle /\ ForecastIdle /\ OptIdle /\ GreedyIdle /\ ProjectionIdle /\ StationsIdle /\ CardsIdle /\ ProvidersIdle
InitOptimize == OptInit /\ DecIdle /\ LitersIdle /\ RangeIdle /\ TrendIdle /\ ForecastIdle /\ GreedyIdle /\ ProjectionIdle /\ StationsIdle /\ CardsIdle /\ ProvidersIdle
InitLiters == LitersInit /\ DecIdle /\ RangeIdle /\ TrendIdle /\ ForecastIdle /\ OptIdle /\ GreedyIdle /\ ProjectionIdle /\ StationsIdle /\ CardsIdle /\ ProvidersIdle
InitRange == RangeInit /\ DecIdle /\ LitersIdle /\ TrendIdle /\ ForecastIdle /\ OptIdle /\ GreedyIdle /\ ProjectionIdle /\ StationsIdle /\ CardsIdle /\ ProvidersIdle
InitForecast == ForecastInit /\ DecIdle /\ LitersIdle /\ RangeIdle /\ TrendIdle /\ OptIdle /\ GreedyIdle /\ ProjectionIdle /\ StationsIdle /\ CardsIdle /\ ProvidersIdle
InitProjection == ProjectionInit /\ DecIdle /\ LitersIdle /\ RangeIdle /\ TrendIdle /\ ForecastIdle /\ OptIdle /\ GreedyIdle /\ StationsIdle /\ CardsIdle /\ ProvidersIdle
InitGreedy == GreedyInit /\ DecIdle /\ LitersIdle /\ RangeIdle /\ TrendIdle /\ ForecastIdle /\ OptIdle /\ ProjectionIdle /\ StationsIdle /\ CardsIdle /\ ProvidersIdle
InitStations == StationsInit /\ DecIdle /\ LitersIdle /\ RangeIdle /\ TrendIdle /\ ForecastIdle /\ OptIdle /\ GreedyIdle /\ ProjectionIdle /\ CardsIdle /\ ProvidersIdle
InitCards == CardsInit /\ DecIdle /\ LitersIdle /\ RangeIdle /\ TrendIdle /\ ForecastIdle /\ OptIdle /\ GreedyIdle /\ ProjectionIdle /\ StationsIdle /\ ProvidersIdle
InitProviders == ProvidersInit /\ DecIdle /\ LitersIdle /\ RangeIdle /\ TrendIdle /\ ForecastIdle /\ OptIdle /\ GreedyIdle /\ ProjectionIdle /\ StationsIdle /\ CardsIdle

SpecDecision == InitDecision /\ [][MakeDecision]_vars
SpecTrend == InitTrend /\ [][TrendNext]_vars
SpecOptimize == InitOptimize /\ [][OptNext]_vars
SpecGreedy == InitGreedy /\ [][GreedyPlan]_vars

\* the positions of optimize_fuel_strategy; at "built" it calls solve_model
Positions == {"start", "found", "annotated", "built", "solved", "done"}

\* a step that leaves a position: at each position before "done" exactly one
\* action of OptNext is enabled, and it moves pc
Advance(position) == pc = position /\ pc' \in Positions \ {position}

\* optimize_fuel_strategy runs on once awaited, so it leaves every position at
\* which it executes its own code. solver.solve(model, tee=False) is given no
\* time limit: leaving "built" is up to the solver, and is not required
OptimizeFairness == \A position \in {"start", "found", "annotated", "solved"} : WF_pc(Advance(position))
SpecOptimizeLive == InitOptimize /\ [][OptNext]_vars /\ OptimizeFairness
\* the same with a solver that always terminates
SpecOptimizeSolverReturns == SpecOptimizeLive /\ WF_pc(Advance("built"))
SpecLiters == InitLiters /\ [][CalculateLitersRemaining]_vars
SpecRange == InitRange /\ [][CalculateRangeKm]_vars
SpecForecast == InitForecast /\ [][GenerateForecast]_vars
SpecProjection == InitProjection /\ [][BuildFuelProjection]_vars
SpecStations == InitStations /\ [][FindStationsAlongRoute]_vars
SpecCards == InitCards /\ [][ApplyCardBenefits]_vars
SpecProviders == InitProviders /\ [][ProvidersNext]_vars

----------------------------------------------------------------------------
(* Properties of the decision engine, stated on the inputs                 *)

DecidedLiters ==
    calculate_liters_remaining(din.vehicle, din.fuel_anchor_type,
                               din.fuel_percent, din.distance_since_fillup_km)
DecidedRange ==
    calculate_range_km(DecidedLiters, ReserveLiters(din.vehicle), din.vehicle.eff)
DecidedTrip == RInt(Val(din.planned_trip_km))
TripGiven == ~IsNone(din.planned_trip_km)
Decided == ~IsNone(dres)
Verdict(d, s, c) ==
    /\ Val(dres).decision = d
    /\ Val(dres).severity = s
    /\ Val(dres).confidence = c

CriticalFuel ==
    \/ RLe(DecidedRange, RInt(30))
    \/ RLe(DecidedLiters, ReserveLiters(din.vehicle))
TripExceedsRange == TripGiven /\ RGt(DecidedTrip, DecidedRange)
TripNearRange ==
    /\ TripGiven
    /\ RGt(DecidedTrip, RMul(R(7, 10), DecidedRange))
    /\ RLe(DecidedTrip, DecidedRange)
TrendRising ==
    /\ ~IsNone(din.today_price)
    /\ ~IsNone(din.predicted_tomorrow)
    /\ RGe(RSub(Val(din.predicted_tomorrow), Val(din.today_price)), RInt(20))

\* C1: for every valid input exactly one of the five branches runs, and when
\* usable range <= 30 km or remaining liters <= reserve liters the result is
\* FILL / high / 0.95 whatever the planned trip, the prices and the trend.
C1_Rule1Dominates ==
    Decided =>
        /\ Val(dres).branch \in 1..5
        /\ CriticalFuel => Val(dres).branch = 1 /\ Verdict("FILL", "high", 95)

\* rule 1 decides although the planned trip exceeds the range and the trend rises
C1_Witness ==
    /\ Decided
    /\ CriticalFuel
    /\ TripExceedsRange
    /\ TrendRising

\* C7: rule 1 does not apply and a planned trip strictly greater than the usable
\* range is given: FILL, severity high, confidence 0.95, whatever the trend.
C7_TripExceedsRange ==
    (Decided /\ ~CriticalFuel /\ TripExceedsRange) =>
        Val(dres).branch = 2 /\ Verdict("FILL", "high", 95)

C7_Witness ==
    /\ Decided /\ ~CriticalFuel /\ TripExceedsRange
    /\ Val(dres).price_trend = Some("falling")

C9_TrendOrNoAction ==
    (Decided /\ ~CriticalFuel /\ ~TripExceedsRange /\ ~TripNearRange) =>
        IF TrendRising /\ RLt(DecidedRange, RInt(120))
        THEN Val(dres).branch = 4 /\ Verdict("FILL", "medium", 75)
        ELSE Val(dres).branch = 5 /\ Verdict("NO_ACTION", "low", 70)

C9_Witness ==
    /\ Decided /\ ~CriticalFuel /\ ~TripExceedsRange /\ ~TripNearRange
    /\ TrendRising /\ RLt(DecidedRange, RInt(120))

C11_ClassifiersAgree ==
    (~IsNone(tres) /\ ~IsNone(ptres)) => Val(ptres) = Val(tres)

\* both were called on a pair whose delta is exactly the threshold
C11_Witness ==
    /\ ~IsNone(tres) /\ ~IsNone(ptres)
    /\ tin[2] - tin[1] = -20
    /\ Val(ptres) = "falling"

PriceMissing == IsNone(din.today_price) \/ IsNone(din.predicted_tomorrow)

\* C12: make_decision returns a result for every valid vehicle; without a
\* planned trip rules 2 and 3 do not run, and with today's or the predicted
\* price missing the trend is absent and rule 4 does not run.
C12_MissingInputsSkipRules ==
    Decided =>
        /\ Val(dres).decision \in {"FILL", "NO_ACTION"}
        /\ ~TripGiven => Val(dres).branch \notin {2, 3}
        /\ PriceMissing =>
              /\ Val(dres).price_trend = None
              /\ Val(dres).price_delta = None
              /\ Val(dres).branch # 4

\* no trip and one price missing, with a range at which rule 4 could run
C12_Witness ==
    /\ Decided /\ ~TripGiven /\ PriceMissing
    /\ ~IsNone(din.predicted_tomorrow)
    /\ ~CriticalFuel /\ RLt(DecidedRange, RInt(120))
    /\ Val(dres).branch = 5

\* the branch the five rules select on the unrounded liters, range and delta
UnroundedBranch ==
    IF CriticalFuel THEN 1
    ELSE IF TripExceedsRange THEN 2
    ELSE IF TripNearRange THEN 3
    ELSE IF TrendRising /\ RLt(DecidedRange, RInt(120)) THEN 4
    ELSE 5

\* C13: the rule that runs is the one selected by the unrounded liters, range
\* and delta; the reported liters are rounded to 1 decimal, the range to whole
\* km and the delta to 3 decimals.
C13_RoundingOnlyReported ==
    Decided =>
        /\ Val(dres).branch = UnroundedBranch
        /\ Val(dres).liters_remaining = Round1(DecidedLiters)
        /\ Val(dres).range_km = RoundHalfEven(DecidedRange)
        /\ ~IsNone(Val(dres).price_delta) =>
              Val(Val(dres).price_delta) =
                  RoundHalfEven(RSub(Val(din.predicted_tomorrow), Val(din.today_price)))

\* a range of 30.5 km is reported as 30 and rule 1 does not run
C13_Witness ==
    /\ Decided
    /\ RGt(DecidedRange, RInt(30))
    /\ Val(dres).range_km = 30
    /\ Val(dres).branch # 1

\* capacity x 100 - distance x efficiency: the liters left, in 1/100 liter
LeftCentiliters == lin.vehicle.tank * 100 - Val(lin.distance_since_fillup_km) * lin.vehicle.eff

\* C14: percent anchor with a percent: capacity x percent / 100; fill-up anchor
\* with a distance: max(0, capacity - distance x efficiency / 100), never
\* negative; every other case: 50% of capacity.
C14_LitersRemaining ==
    ~IsNone(lres) =>
        /\ Val(lres).n >= 0
        /\ IF lin.fuel_anchor_type = "percent" /\ ~IsNone(lin.fuel_percent)
           THEN Val(lres) = R(lin.vehicle.tank * Val(lin.fuel_percent), 100)
           ELSE IF lin.fuel_anchor_type = "last_full_fillup_date" /\ ~IsNone(lin.distance_since_fillup_km)
           THEN Val(lres) = (IF LeftCentiliters > 0 THEN R(LeftCentiliters, 100) ELSE RInt(0))
           ELSE Val(lres) = R(lin.vehicle.tank, 2)

\* more was driven than the tank holds: 0 liters
C14_Witness ==
    /\ ~IsNone(lres)
    /\ lin.fuel_anchor_type = "last_full_fillup_date"
    /\ ~IsNone(lin.distance_since_fillup_km)
    /\ LeftCentiliters < 0
    /\ Val(lres) = RInt(0)

\* reserve liters = capacity x reserve fraction, and the range of x liters
RangeReserve == R(rin.vehicle.tank * rin.vehicle.reserve_pct, 100)
RangeOf(liters) ==
    IF RLe(liters, RangeReserve) THEN RInt(0)
    ELSE RDiv(RMul(RSub(liters, RangeReserve), RInt(100)), RInt(rin.vehicle.eff))

\* C15: range = max(0, liters - reserve) / (efficiency / 100) with reserve =
\* capacity x reserve fraction: 0 when liters <= reserve, never negative, and
\* non-decreasing in the liters for a fixed vehicle.
C15_UsableRange ==
    ~IsNone(rres) =>
        /\ Val(rres)[1] = RangeOf(rin.liters_a)
        /\ Val(rres)[2] = RangeOf(rin.liters_b)
        /\ Val(rres)[1].n >= 0 /\ Val(rres)[2].n >= 0
        /\ RLe(rin.liters_a, rin.liters_b) => RLe(Val(rres)[1], Val(rres)[2])

\* one call below the reserve, the other above it
C15_Witness ==
    /\ ~IsNone(rres)
    /\ RLt(rin.liters_a, RangeReserve) /\ RGt(rin.liters_b, RangeReserve)
    /\ Val(rres)[1] = RInt(0) /\ Val(rres)[2].n > 0

Forecast == Val(fres)
Forecasted == ~IsNone(fres)
History == fin.historical_prices

\* C16: an empty history gives an empty list; otherwise there are exactly
\* `days` entries, in increasing day order, each with the fields day,
\* predicted_price, delta_from_today and trend.
C16_ForecastShape ==
    Forecasted =>
        IF History = <<>> THEN Forecast = <<>>
        ELSE /\ Len(Forecast) = fin.days
             /\ \A k \in 1..Len(Forecast) :
                    /\ DOMAIN Forecast[k] = {"day", "predicted_price", "delta_from_today", "trend"}
                    /\ Forecast[k].day = k
                    /\ Forecast[k].trend \in {"rising", "flat", "falling"}

C16_Witness == Forecasted /\ Len(History) = 3 /\ fin.days = MaxDays /\ Len(Forecast) = MaxDays

\* the history is an arithmetic series of at least two prices; its newest
\* price and its common difference
HistoryLinear ==
    /\ Len(History) >= 2
    /\ \A i \in 1..(Len(History) - 1) : History[i] - History[i + 1] = History[1] - History[2]
Newest == History[1]
Difference == History[1] - History[2]
Continuation(k) == Newest + k * Difference

\* C17 as stated: a linear history with difference d ending at p gives the
\* prediction p + k x d for forecast day k.
C17_LinearContinuation ==
    (Forecasted /\ HistoryLinear) =>
        \A k \in 1..Len(Forecast) : Forecast[k].predicted_price = Continuation(k)

\* C17, amended: the prediction for day k is p + k x d, and 0.01 where p + k x d
\* is below 0.01.
C17_LinearContinuationFloored ==
    (Forecasted /\ HistoryLinear) =>
        \A k \in 1..Len(Forecast) :
            Forecast[k].predicted_price = (IF Continuation(k) < 10 THEN 10 ELSE Continuation(k))

\* a falling series whose first forecast day is on the line and whose last is floored
C17_Witness ==
    /\ Forecasted /\ HistoryLinear
    /\ Len(Forecast) >= 2
    /\ Continuation(1) >= 10 /\ Forecast[1].predicted_price = Continuation(1)
    /\ Continuation(Len(Forecast)) < 10

\* the label of a delta in mills
LabelOf(delta) == IF delta >= 20 THEN "rising" ELSE IF delta <= -20 THEN "falling" ELSE "flat"

\* C18: every predicted_price is >= 0.01, and where the line is at or below
\* 0.01 the delta and the trend of the day are those of the price 0.01.
C18_PriceFloor ==
    Forecasted =>
        /\ \A k \in 1..Len(Forecast) : Forecast[k].predicted_price >= 10
        /\ HistoryLinear =>
              \A k \in 1..Len(Forecast) :
                  Continuation(k) <= 10 =>
                      /\ Forecast[k].predicted_price = 10
                      /\ Forecast[k].delta_from_today = 10 - fin.today_price
                      /\ Forecast[k].trend = LabelOf(10 - fin.today_price)

\* the line is below zero on some day; the floored price gives flat, the line falling
C18_Witness ==
    /\ Forecasted /\ HistoryLinear
    /\ \E k \in 1..Len(Forecast) :
          /\ Continuation(k) < 0
          /\ Forecast[k].trend = "flat"
          /\ LabelOf(Continuation(k) - fin.today_price) = "falling"

----------------------------------------------------------------------------
(* Properties of optimize_fuel_strategy and of the greedy planner          *)

Returned == ~IsNone(ores)
SolverEnded == ~IsNone(opt_status)
SolvedStatuses == {"optimal", "feasible"}
HeuristicTags == {"heuristic_optimal", "heuristic_no_stop", "heuristic_failed"}

\* C2: no solver available, or a status other than optimal/feasible: the same
\* inputs go to solve_greedy_heuristic and its result, tagged heuristic, is what
\* optimize_fuel_strategy returns, not an error result.
C2_FallbackToGreedy ==
    (Returned /\ SolverEnded /\ Val(opt_status) \notin SolvedStatuses) =>
        /\ "solve_greedy_heuristic" \in called
        /\ Val(ores) = solve_greedy_heuristic(Val(opt_model).metadata)
        /\ Val(ores).solver_status.tag \in HeuristicTags

\* C3: extract_solution runs only for the statuses optimal and feasible; for any
\* other status it is not invoked and no plan tagged optimal is returned.
C3_ExtractOnlyWhenSolved ==
    (SolverEnded /\ Val(opt_status) \notin SolvedStatuses) =>
        /\ "extract_solution" \notin called
        /\ Returned => Val(ores).solver_status.tag # "optimal"

\* the trip fuel need of a metadata dict and the fuel a plan puts on board
RECURSIVE PlanLiters(_, _)
PlanLiters(stops, k) ==
    IF k = 0 THEN RInt(0) ELSE RAdd(stops[k].liters_to_fill, PlanLiters(stops, k - 1))

CoversTrip(result, metadata) ==
    (result.kind = "returned" /\ result.stops # <<>>) =>
        RGe(RAdd(metadata.initial_fuel, PlanLiters(result.stops, Len(result.stops))),
            RDiv(RMul(metadata.total_km, RInt(metadata.efficiency)), RInt(100)))

\* C4: every non-empty plan of extract_solution or of solve_greedy_heuristic has
\* current fuel + the sum of liters_to_fill >= total route km x efficiency / 100.
C4_PlanCoversTrip ==
    /\ ~IsNone(gres) => CoversTrip(Val(gres), GreedyMetadata(gin))
    /\ (Returned /\ "extract_solution" \in called) =>
           CoversTrip(Val(ores), Val(opt_model).metadata)

\* the plans extract_solution builds from a solution with status optimal or feasible
SolvedPlanCoversTrip ==
    (Returned /\ SolverEnded /\ Val(opt_status) \in SolvedStatuses) =>
        CoversTrip(Val(ores), Val(opt_model).metadata)

\* a stage of optimize_fuel_strategy failed
InternalFailure ==
    \/ AddForecastsRaises(opt_stations)
    \/ SolverEnded /\ StatusAccepted(Val(opt_status)) /\ IsNone(opt_sol)

\* C5: no exception leaves optimize_fuel_strategy; an internal failure gives a
\* result with empty stops, a reasoning line and an error status.
C5_NeverPropagates ==
    Returned =>
        /\ Val(ores).kind = "returned"
        /\ InternalFailure =>
              /\ Val(ores).stops = <<>>
              /\ Val(ores).reasoning # <<>>
              /\ Val(ores).solver_status.tag = "error"

\* the distance of a latitude to a segment of the route: 0 between its ends,
\* otherwise the distance to the nearer end
Between(x, a, b) == (a <= x /\ x <= b) \/ (b <= x /\ x <= a)
DistanceToSegment(x, a, b) ==
    IF Between(x, a, b) THEN 0
    ELSE IF Abs(x - a) <= Abs(x - b) THEN Abs(x - a) ELSE Abs(x - b)

NoStationInRadius ==
    \A k \in DOMAIN oin.all_stations :
        \A i \in 1..(Len(oin.route_points) - 1) :
            DistanceToSegment(oin.all_stations[k].lat, RFloor(oin.route_points[i].lat),
                              RFloor(oin.route_points[i + 1].lat)) > oin.search_radius_km

\* C6: no candidate station within the search radius of the route: the result
\* has stops = [] and status no_stations, nothing is raised and no model is
\* built or solved.
C6_NoStations ==
    (pc # "start" /\ NoStationInRadius) =>
        /\ pc = "done"
        /\ Val(ores).kind = "returned"
        /\ Val(ores).stops = <<>>
        /\ Val(ores).solver_status.tag = "no_stations"
        /\ called = {"find_stations_along_route"}
        /\ IsNone(opt_model) /\ IsNone(opt_status)

\* stations exist, all of them beyond the radius
C6_Witness ==
    /\ pc = "done"
    /\ NoStationInRadius
    /\ Len(oin.all_stations) = MaxStations

Projection == Val(pres)
Projected == ~IsNone(pres)

\* C19: every fuel_pct of the projection lies in [0, 100], for any plan, route
\* length and efficiency and an initial fuel between 0 and the tank capacity.
C19_ProjectionInRange ==
    Projected =>
        \A i \in 1..Len(Projection) :
            /\ RLe(RInt(0), Projection[i].fuel_pct)
            /\ RLe(Projection[i].fuel_pct, RInt(100))

\* the tank runs dry before the first stop, and a later fill overfills it
C19_Witness ==
    /\ Projected
    /\ pin.initial_fuel = RInt(0)
    /\ \E i, j \in 1..Len(Projection) :
          /\ i < j
          /\ Projection[i].km > 0
          /\ \A k \in 1..i : IsNone(Projection[k].action)
          /\ Projection[i].fuel_pct = RInt(0)
          /\ ~IsNone(Projection[j].action)
          /\ Projection[j].fuel_pct = RInt(100)

Found == ~IsNone(sres)
Segments == 1..(Len(sin.route_points) - 1)
SegmentDistance(k, i) ==
    DistanceToSegment(sin.all_stations[k].lat, RFloor(sin.route_points[i].lat), RFloor(sin.route_points[i + 1].lat))
WithinRadius(k) == \E i \in Segments : SegmentDistance(k, i) <= sin.radius_km
IsReturned(k) == \E j \in 1..Len(Val(sres)) : Val(sres)[j].id = sin.all_stations[k].id

\* C20: find_stations_along_route returns a candidate station if and only if
\* its least distance to the segments of the route, taken to the segment and
\* not to the line through it, is at most the search radius: a station on a
\* segment is always returned, one farther than the radius from every segment
\* never; each station is returned at most once.
C20_WithinRadiusReturned ==
    Found =>
        /\ \A k \in DOMAIN sin.all_stations : IsReturned(k) <=> WithinRadius(k)
        /\ Len(Val(sres)) = Cardinality({ k \in DOMAIN sin.all_stations : WithinRadius(k) })

\* one station on a segment is returned, and one that lies on the line through
\* the segment but beyond the radius from its end is not
C20_Witness ==
    /\ Found
    /\ \E k1, k2 \in DOMAIN sin.all_stations :
          /\ \E i \in Segments : SegmentDistance(k1, i) = 0
          /\ IsReturned(k1)
          /\ \A i \in Segments : SegmentDistance(k2, i) > sin.radius_km
          /\ ~IsReturned(k2)

CardsApplied == ~IsNone(cres)
CashbackOf(card) == IF IsNone(card.cashback) THEN 0 ELSE Val(card.cashback)
HighestCashback == CHOOSE h \in {0} \cup { CashbackOf(cin.user_cards[i]) : i \in DOMAIN cin.user_cards } : \A i \in DOMAIN cin.user_cards : CashbackOf(cin.user_cards[i]) <= h
FirstWithHighest == CHOOSE i \in DOMAIN cin.user_cards : CashbackOf(cin.user_cards[i]) = HighestCashback /\ \A j \in 1..(i - 1) : CashbackOf(cin.user_cards[j]) < HighestCashback

\* C21: apply_card_benefits gives every station the highest cashback percent
\* among the user's cards and the provider of the first card in list order that
\* has it; when no card has a positive cashback the station has cashback 0 and
\* no card. Nothing else of a station changes.
C21_HighestCashbackFirstCard ==
    CardsApplied =>
        /\ Len(Val(cres)) = Len(cin.stations)
        /\ \A i \in 1..Len(Val(cres)) :
              /\ Val(cres)[i].cashback_percent = HighestCashback
              /\ Val(cres)[i].best_card = IF HighestCashback > 0 THEN Some(cin.user_cards[FirstWithHighest].provider) ELSE None
              /\ [Val(cres)[i] EXCEPT !.cashback_percent = 0, !.best_card = None] = cin.stations[i]

\* two cards of different providers share the highest cashback, after a lower
\* one, and two stations get the earlier of the two
C21_Witness ==
    /\ CardsApplied
    /\ Len(Val(cres)) = 2
    /\ \E i, j \in DOMAIN cin.user_cards :
          /\ 1 < i /\ i < j
          /\ CashbackOf(cin.user_cards[1]) < HighestCashback
          /\ CashbackOf(cin.user_cards[i]) = HighestCashback
          /\ CashbackOf(cin.user_cards[j]) = HighestCashback
          /\ cin.user_cards[i].provider # cin.user_cards[j].provider
          /\ Val(cres)[1].best_card = Some(cin.user_cards[i].provider)

\* C22: optimize_fuel_strategy always eventually returns a result, also when the
\* solver call never terminates, because the solver invocation is bounded by a
\* timeout.
C22_EventuallyReturns == <>(pc = "done")

NonEmptyReturns ==
    \A c \in DOMAIN calls :
        calls[c].pos = "returned" => ~IsNone(calls[c].result) /\ Len(Val(calls[c].result)) > 0
CacheKept == ~IsNone(PROVIDERS_CACHE) => PROVIDERS_CACHE' = PROVIDERS_CACHE

\* C23: when concurrent get_supported_providers calls find the cache empty, the
\* first writer wins: once the cache holds a list no later call replaces it by
\* a different list, it never becomes None again, and every call returns a
\* non-empty list.
C23_FirstWriterWins == [](NonEmptyReturns) /\ [][CacheKept]_providerVars

\* two requests whose searches answer with different valid lists have both
\* returned, and both returned the list of the one that ran first
C23_Witness ==
    \E c1, c2 \in DOMAIN calls :
        /\ has_client
        /\ ValidProviders(calls[c1].response) /\ ValidProviders(calls[c2].response)
        /\ calls[c1].response # calls[c2].response
        /\ calls[c1].pos = "returned" /\ calls[c2].pos = "returned"
        /\ PROVIDERS_CACHE = Some(calls[c1].response.providers)
        /\ calls[c1].result = PROVIDERS_CACHE /\ calls[c2].result = PROVIDERS_CACHE

\* the solver ended with a solution of the model and extract_solution ran
SolvedAndExtracted ==
    /\ pc = "done"
    /\ "extract_solution" \in called
    /\ Val(opt_status) \in {"optimal", "feasible"}
ExtractedPlan == Val(ores).stops

GreedyDone == ~IsNone(gres)
GreedyMeta == GreedyMetadata(gin)
GreedyNeedsFuel == RLt(GreedyMeta.initial_fuel, GreedyMeta.total_fuel_needed)
ReachKm == RDiv(RMul(GreedyMeta.initial_fuel, RInt(100)), RInt(GreedyMeta.efficiency))
InReach == { k \in DOMAIN GreedyMeta.stations : RLe(GreedyMeta.stations[k].km_along_route, ReachKm) }
TodayPrice(k) == effective_price(GreedyMeta.stations[k], 0)
KmOf(k) == GreedyMeta.stations[k].km_along_route
IsGreedyStop(k) == Val(gres).stops[1].station = GreedyMeta.stations[k].id /\ Val(gres).stops[1].km_at_stop = KmOf(k)

\* C25: when the current fuel does not cover the trip, solve_greedy_heuristic
\* stops at a station within current fuel / efficiency x 100 km along the route
\* whose cashback-adjusted price of day 0 is the lowest among those, the
\* earliest along the route of the stations at that price; with no station
\* within that reach the plan is empty and the result says so.
C25_CheapestReachable ==
    (GreedyDone /\ GreedyNeedsFuel) =>
        IF InReach = {}
        THEN Val(gres).stops = <<>> /\ Val(gres).solver_status.tag = "heuristic_failed"
        ELSE /\ Len(Val(gres).stops) = 1
             /\ Val(gres).stops[1].day_offset = 0
             /\ \E k \in InReach :
                   /\ IsGreedyStop(k)
                   /\ \A j \in InReach : RLe(TodayPrice(k), TodayPrice(j))
                   /\ \A j \in InReach : TodayPrice(j) = TodayPrice(k) => RLe(KmOf(k), KmOf(j))

\* two stations of the same price are within reach at different km, and the
\* plan stops at the earlier one
C25_Witness ==
    /\ GreedyDone /\ GreedyNeedsFuel
    /\ \E k, j \in InReach :
          /\ TodayPrice(k) = TodayPrice(j)
          /\ RLt(KmOf(k), KmOf(j))
          /\ IsGreedyStop(k)

\* a cheaper station lies beyond the reach and the plan stops at the dearer
\* one within it
C25_WitnessBeyondReach ==
    /\ GreedyDone /\ GreedyNeedsFuel
    /\ \E k \in InReach : \E j \in DOMAIN GreedyMeta.stations \ InReach :
          RLt(TodayPrice(j), TodayPrice(k)) /\ IsGreedyStop(k)

GreedyStop == Val(gres).stops[1]
HasGreedyStop == GreedyDone /\ Val(gres).stops # <<>>
FuelOnArrival(k) == RSub(GreedyMeta.initial_fuel, RDiv(RMul(KmOf(k), RInt(GreedyMeta.efficiency)), RInt(100)))
FuelForRemainder(k) == RDiv(RMul(RSub(GreedyMeta.total_km, KmOf(k)), RInt(GreedyMeta.efficiency)), RInt(100))
WantedFill(k) == RSub(RAdd(FuelForRemainder(k), RInt(GreedyBufferLiters)), FuelOnArrival(k))
SpaceInTank(k) == RSub(RInt(GreedyMeta.tank_size), FuelOnArrival(k))
FillWithinTank ==
    /\ RLe(RInt(0), GreedyStop.liters_to_fill)
    /\ RLe(GreedyStop.liters_to_fill, RInt(GreedyMeta.tank_size))
    /\ RLe(GreedyStop.fuel_level_after, RInt(GreedyMeta.tank_size))

NoStops == pin.stops = <<>>
ProjectionKm == TotalKm(pin.route_points)
\* the level in percent after km kilometres without a fill
LevelAt(km) == RMul(RDiv(RSub(pin.initial_fuel, RDiv(RMul(km, RInt(pin.efficiency)), RInt(100))), RInt(pin.tank_size)), RInt(100))
SampledEveryTenKm == \A i \in 1..(Len(Projection) - 1) : Projection[i].km = SampleStepKm * (i - 1)
EndsAtDestination == RInt(Projection[Len(Projection)].km) = ProjectionKm
ConsumptionExact ==
    /\ \A i \in 1..Len(Projection) : Projection[i].fuel_pct = Round1(RMax(RInt(0), LevelAt(RInt(Projection[i].km))))
    /\ Projection[Len(Projection)].fuel_pct = Round1(RMax(RInt(0), LevelAt(ProjectionKm)))

\* C27: the projection has a sample at km 0, 10, 20, ... and one at the end of
\* the route, and without a fill the level at each sample is the initial fuel
\* less efficiency x km / 100, so that the last level is the initial fuel less
\* efficiency x total route distance / 100.
C27_SamplesAndConsumption ==
    Projected =>
        /\ SampledEveryTenKm
        /\ EndsAtDestination
        /\ NoStops => ConsumptionExact

\* the same for routes of a whole number of km
C27_WholeKmRoutes ==
    (Projected /\ ProjectionKm.d = 1) =>
        /\ SampledEveryTenKm
        /\ EndsAtDestination
        /\ NoStops => ConsumptionExact

SamplesOfRoute == SamplePoints(ProjectionKm)
StopDict == StopKms(pin.stops, Len(pin.stops))
StopsOnRoute == { j \in DOMAIN pin.stops : RGe(pin.stops[j].km_at_stop, RInt(0)) /\ RLe(pin.stops[j].km_at_stop, ProjectionKm) }
\* the sample points at which the fill of stop j is added to the fuel level
FilledAt(j) == { i \in DOMAIN SamplesOfRoute : InStopWindow(SamplesOfRoute[i], pin.stops[j].km_at_stop) }
NeverMerged == Len(StopDict) = Len(pin.stops)
NeverSkipped == \A j \in StopsOnRoute : FilledAt(j) # {}
NeverTwice == \A j \in StopsOnRoute : Cardinality(FilledAt(j)) <= 1

\* C28: the fill of every planned stop between km 0 and the end of the route
\* is added to the simulated fuel level exactly once, at a sample point within
\* 5 km of the stop: no stop is skipped, none is applied at two sample points,
\* and two stops are never merged into one.
C28_EachStopFilledOnce ==
    Projected => (NeverMerged /\ NeverSkipped /\ NeverTwice)

\* the three parts of C28 one by one
C28_NeverMerged == Projected => NeverMerged
C28_NeverSkipped == Projected => NeverSkipped
C28_NeverTwice == Projected => NeverTwice

DeltaPresent == ~IsNone(Val(dres).price_delta)
TrendPresent == ~IsNone(Val(dres).price_trend)

\* C29: in every DecisionResult the price delta is present exactly when the
\* price trend is present, which is exactly when today's price and the
\* predicted price were both supplied; a delta of zero is reported as 0.
C29_DeltaPresentWithTrend ==
    Decided =>
        /\ DeltaPresent <=> TrendPresent
        /\ TrendPresent <=> ~PriceMissing

\* the same for inputs whose two prices differ
C29_DeltaPresentUnlessEqual ==
    (Decided /\ (PriceMissing \/ Val(din.today_price) # Val(din.predicted_tomorrow))) =>
        /\ DeltaPresent <=> TrendPresent
        /\ TrendPresent <=> ~PriceMissing

OptMeta == Val(opt_model).metadata
KmDriven(from_km, to_km) == RDiv(RMul(RSub(to_km, from_km), RInt(OptMeta.efficiency)), RInt(100))
\* the fuel on board when leaving stop k of the plan (k = 0: the start), the
\* stops taken in the order of the plan and every fill taken in full
RECURSIVE FuelLeaving(_)
FuelLeaving(k) ==
    IF k = 0 THEN OptMeta.initial_fuel
    ELSE LET from_km == IF k = 1 THEN RInt(0) ELSE ExtractedPlan[k - 1].km_at_stop
         IN  RAdd(RSub(FuelLeaving(k - 1), KmDriven(from_km, ExtractedPlan[k].km_at_stop)), ExtractedPlan[k].liters_to_fill)
ArrivalAtStop(k) == RSub(FuelLeaving(k), ExtractedPlan[k].liters_to_fill)
ArrivalAtDestination ==
    LET n == Len(ExtractedPlan)
        from_km == IF n = 0 THEN RInt(0) ELSE ExtractedPlan[n].km_at_stop
    IN  RSub(FuelLeaving(n), KmDriven(from_km, OptMeta.total_km))
StopsReachable == \A k \in 1..Len(ExtractedPlan) : RGe(ArrivalAtStop(k), RInt(0))
DestinationReachable == RGe(ArrivalAtDestination, RInt(0))

\* C30: every stop of a plan extracted from a solved model is physically
\* reachable: driving from the initial fuel and refuelling only at the plan's
\* stops, the fuel on arrival at each stop and at the destination is never
\* below zero.
C30_PlanReachable ==
    SolvedAndExtracted => (StopsReachable /\ DestinationReachable)

\* the two parts of C30 one by one
C30_StopsReachable == SolvedAndExtracted => StopsReachable
C30_DestinationReachable == SolvedAndExtracted => DestinationReachable

====
